---- MODULE Spec2Model ----
(***************************************************************************)
(* The semantic response cache of lulu: compression codec, similarity      *)
(* matcher, store, stats collector and cache facade, as state machines.    *)
(***************************************************************************)
EXTENDS Integers, Sequences, FiniteSets, TLC

VARIABLES
  now,            \* Date.now(), in abstract milliseconds
  _store,         \* storeService._store: insertion-ordered Map, as a sequence of entries
  persistence,    \* storeService._config.persistence
  _timer,         \* storeService._timer: id of the last setInterval, 0 for null
  _interval,      \* cacheModule._interval: id of the last setInterval, 0 for null
  timers,         \* the interval timers the event loop still has scheduled
  nextId,         \* the next timer id setInterval hands out
  file,           \* the snapshot file store.json
  enabled,        \* cacheModule._config.enabled
  simEnabled,     \* similarityService._config.enabled
  compEnabled,    \* compressionService._config.enabled
  minLength,      \* compressionService._config.minLength (and the facade's copy)
  _cache,         \* similarityService._cache: insertion-ordered Map of pair -> score
  _data,          \* statsService._data
  last,           \* the last call made, its arguments and what it returned
  written,        \* per key: the arguments of the last store set not yet removed
  saved,          \* the map as it was when the snapshot file was last written
  writing,        \* the fs.writeFile calls of _persistToDisk that have not settled
  held,           \* the object an earlier getStats() returned, as its caller sees it
  scan,           \* the cacheModule.get whose _findSimilar is between two of its awaits
  _invalidatedTokens, \* authMiddleware._invalidatedTokens: the Set of tokens logged out
  revoked,        \* the tokens invalidateToken has returned true for, and how
  _requests,      \* rateLimiter._requests: Map of ip:path -> array of timestamps
  asked,          \* the requests the rate limiter has seen, and what it answered
  codec           \* the codec under test: input, compressed form, decompressed form

\* the state of the API middlewares
apiVars == <<_invalidatedTokens, revoked, _requests, asked>>

vars == <<now, _store, persistence, _timer, _interval, timers, nextId, file,
          enabled, simEnabled, compEnabled, minLength, _cache, _data, last,
          written, saved, writing, held, scan, apiVars, codec>>

-----------------------------------------------------------------------------
(* Bounds of the model.                                                    *)

MaxTime == 2
MaxTimers == 2
MaxOps == 2
MaxLifeTimers == 3
MaxWrites == 2

-----------------------------------------------------------------------------
(* JavaScript values.  A text is a sequence of one-character strings.      *)

Undefined == [t |-> "undefined"]
Null == [t |-> "null"]
Str(s) == [t |-> "string", s |-> s]
Num(n) == [t |-> "number", n |-> n]
Bool(b) == [t |-> "boolean", b |-> b]
Obj(f) == [t |-> "object", o |-> f]
\* a string that is the base64 text of the bytes z
B64(z) == [t |-> "base64", z |-> z]

Nullish(v) == v.t \in {"undefined", "null"}

\* ToBoolean
Truthy(v) ==
  CASE v.t = "undefined" -> FALSE
    [] v.t = "null" -> FALSE
    [] v.t = "boolean" -> v.b
    [] v.t = "number" -> v.n # 0
    [] v.t = "string" -> v.s # <<>>
    [] OTHER -> TRUE

\* v.name for a v that is neither null nor undefined
Prop(v, name) ==
  IF v.t = "object" /\ name \in DOMAIN v.o THEN v.o[name] ELSE Undefined

\* what a call returns, or the exception it throws
Ok(v) == [ok |-> TRUE, v |-> v]
Throw(e) == [ok |-> FALSE, err |-> e]

-----------------------------------------------------------------------------
(* JSON.  A JSON text is represented by the value it denotes and by its    *)
(* length: JSON.stringify drops the properties whose value is undefined,   *)
(* JSON.parse returns the denoted value.                                   *)

RECURSIVE ToJson(_)
ToJson(v) ==
  IF v.t = "object"
    THEN LET keep == {f \in DOMAIN v.o : v.o[f].t # "undefined"}
         IN  Obj([f \in keep |-> ToJson(v.o[f])])
    ELSE v

NumLen(n) == IF n < 10 THEN 1 ELSE IF n < 100 THEN 2 ELSE 3

RECURSIVE SumLen(_, _)
RECURSIVE JsonLen(_)
\* the characters of the members f of the object o: "name":value
SumLen(o, fs) ==
  IF fs = {} THEN 0
  ELSE LET f == CHOOSE g \in fs : TRUE
       IN  Len(f) + 3 + JsonLen(o[f]) + SumLen(o, fs \ {f})

GzipLen(n) == n + 20
Base64Len(n) == 4 * ((n + 2) \div 3)

JsonLen(v) ==
  CASE v.t = "null" -> 4
    [] v.t = "boolean" -> IF v.b THEN 4 ELSE 5
    [] v.t = "number" -> NumLen(v.n)
    [] v.t = "string" -> Len(v.s) + 2
    [] v.t = "base64" -> Base64Len(GzipLen(v.z.gz.len)) + 2
    [] v.t = "object" ->
         LET n == Cardinality(DOMAIN v.o)
         IN  2 + SumLen(v.o, DOMAIN v.o) + (IF n > 1 THEN n - 1 ELSE 0)

\* JSON.stringify(v) of a v that is not undefined
Stringify(v) == [json |-> ToJson(v), len |-> JsonLen(ToJson(v))]
\* JSON.parse(text)
Parse(text) == text.json

\* zlib.gzip / zlib.gunzip on a text
Gzip(text) == [gz |-> text]
Gunzip(bytes) == bytes.gz

gzip == <<"g", "z", "i", "p">>

-----------------------------------------------------------------------------
(* compressionService (cache-compression.js)                               *)

\* a faulty variant: a payload of exactly minLength is left as it is
compress_le(payload) ==
  IF ~compEnabled THEN Ok(payload)
  ELSE IF payload.t = "undefined" THEN Throw("TypeError")
  ELSE LET str == Stringify(payload)
       IN  IF str.len <= minLength THEN Ok(payload)
           ELSE Ok(Obj([compressed |-> Bool(TRUE), encoding |-> Str(gzip),
                        data |-> B64(Gzip(str)), originalLength |-> Num(str.len)]))

compress(payload) ==
  IF ~compEnabled THEN Ok(payload)
  ELSE IF payload.t = "undefined" THEN Throw("TypeError")
  ELSE LET str == Stringify(payload)
       IN  IF str.len < minLength THEN Ok(payload)
           ELSE Ok(Obj([compressed |-> Bool(TRUE), encoding |-> Str(gzip),
                        data |-> B64(Gzip(str)), originalLength |-> Num(str.len)]))

decompress(entry) ==
  IF Nullish(entry) THEN Throw("TypeError")
  ELSE IF ~Truthy(Prop(entry, "compressed")) THEN Ok(entry)
  ELSE LET data == Prop(entry, "data")
       IN  CASE data.t = "base64" -> Ok(Parse(Gunzip(data.z)))
             [] data.t = "string" -> Throw("ZlibError")
             [] OTHER -> Throw("TypeError")

-----------------------------------------------------------------------------
(* similarityService (cache-similarity.js).  A score is the rational       *)
(* num / den; the memo is a sequence of [pair, score] in insertion order.  *)

One == [num |-> 1, den |-> 1]
Zero == [num |-> 0, den |-> 1]
\* similarity.threshold: 0.8
Threshold == [num |-> 4, den |-> 5]
GT(x, y) == x.num * y.den > y.num * x.den

\* the letters, and the characters in the order of their code units, which
\* is the order Array.prototype.sort compares strings in
Lower == <<"a", "b", "c", "d", "e", "f", "g", "h", "i", "j", "k", "l", "m",
           "n", "o", "p", "q", "r", "s", "t", "u", "v", "w", "x", "y", "z">>
Upper == <<"A", "B", "C", "D", "E", "F", "G", "H", "I", "J", "K", "L", "M",
           "N", "O", "P", "Q", "R", "S", "T", "U", "V", "W", "X", "Y", "Z">>
CodeUnits ==
  <<" ", "!", "0", "1", "2", "3", "4", "5", "6", "7", "8", "9", "?">>
    \o Upper \o <<"_">> \o Lower \o <<"|">>

toLowerChar(c) ==
  IF \E i \in 1..Len(Upper) : Upper[i] = c
    THEN Lower[CHOOSE i \in 1..Len(Upper) : Upper[i] = c]
    ELSE c
\* \w and \s over these characters
WordChar(c) ==
  \E i \in 1..Len(CodeUnits) : CodeUnits[i] = c /\ c \notin {" ", "!", "?", "|"}
SpaceChar(c) == c = " "

toLowerCase(s) == [i \in 1..Len(s) |-> toLowerChar(s[i])]

RECURSIVE trimStart(_)
trimStart(s) == IF s # <<>> /\ SpaceChar(Head(s)) THEN trimStart(Tail(s)) ELSE s
RECURSIVE trimEnd(_)
trimEnd(s) ==
  IF s # <<>> /\ SpaceChar(s[Len(s)]) THEN trimEnd(SubSeq(s, 1, Len(s) - 1)) ELSE s
trim(s) == trimEnd(trimStart(s))

\* replace(/\s+/g, ' ')
RECURSIVE collapse(_)
collapse(s) ==
  IF s = <<>> THEN <<>>
  ELSE IF SpaceChar(Head(s))
    THEN <<" ">> \o collapse(trimStart(s))
    ELSE <<Head(s)>> \o collapse(Tail(s))

\* a faulty variant: the case of the letters is kept
_normalize_case(text) ==
  IF ~Truthy(text) THEN <<>>
  ELSE trim(collapse(SelectSeq(text.s, LAMBDA c : WordChar(c) \/ SpaceChar(c))))

\* _normalize with ignoreCase and normalizeText, as configured; text is a value
_normalize(text) ==
  IF ~Truthy(text) THEN <<>>
  ELSE LET out == toLowerCase(text.s)
           kept == SelectSeq(out, LAMBDA c : WordChar(c) \/ SpaceChar(c))
       IN  trim(collapse(kept))

Min3(x, y, z) == IF x <= y /\ x <= z THEN x ELSE IF y <= z THEN y ELSE z
Max2(x, y) == IF x >= y THEN x ELSE y

\* a faulty variant: a substitution costs 1 also when the characters agree
RECURSIVE row_loop_cost(_, _, _, _)
row_loop_cost(prev, ai, b, acc) ==
  LET j == Len(acc)
  IN  IF j > Len(b) THEN acc
      ELSE row_loop_cost(prev, ai, b,
                         Append(acc, Min3(prev[j + 1] + 1, acc[j] + 1, prev[j] + 1)))

\* the inner loop of _levenshteinSim on row i of the matrix: prev is row
\* i - 1, acc holds the columns 0..j-1 of row i already filled
RECURSIVE row_loop(_, _, _, _)
row_loop(prev, ai, b, acc) ==
  LET j == Len(acc)
      cost == IF ai = b[j] THEN 0 ELSE 1
  IN  IF j > Len(b) THEN acc
      ELSE row_loop(prev, ai, b,
                    Append(acc, Min3(prev[j + 1] + 1, acc[j] + 1, prev[j] + cost)))

\* row i of the matrix of _levenshteinSim: matrix[i][0..b.length]
RECURSIVE matrix(_, _, _)
matrix(a, b, i) ==
  IF i = 0 THEN [k \in 1..(Len(b) + 1) |-> k - 1]
  ELSE row_loop(matrix(a, b, i - 1), a[i], b, <<i>>)

_levenshteinSim(a, b) ==
  LET distance == matrix(a, b, Len(a))[Len(b) + 1]
      longest == Max2(Len(a), Len(b))
  IN  [num |-> longest - distance, den |-> longest]

\* _config.cacheSize, as initialize(config) sets it
cacheSize == 2

\* a < b as sort compares two strings
RECURSIVE Less(_, _)
Less(a, b) ==
  IF b = <<>> THEN FALSE
  ELSE IF a = <<>> THEN TRUE
  ELSE IF Head(a) = Head(b) THEN Less(Tail(a), Tail(b))
  ELSE (CHOOSE i \in 1..Len(CodeUnits) : CodeUnits[i] = Head(a))
         < (CHOOSE i \in 1..Len(CodeUnits) : CodeUnits[i] = Head(b))

\* a faulty variant: the key is the first text alone
cacheKey_first(a, b) == a

\* [a, b].sort().join('||')
cacheKey(a, b) ==
  IF Less(b, a) THEN b \o <<"|", "|">> \o a ELSE a \o <<"|", "|">> \o b

\* a faulty variant: a hit makes its entry the most recent one
_calculate_lru(memo, a, b) ==
  IF a = b THEN [memo |-> memo, score |-> One]
  ELSE IF a = <<>> \/ b = <<>> THEN [memo |-> memo, score |-> Zero]
  ELSE LET key == cacheKey(a, b)
           score == IF \E i \in 1..Len(memo) : memo[i].key = key
                      THEN memo[CHOOSE i \in 1..Len(memo) : memo[i].key = key].score
                      ELSE _levenshteinSim(a, b)
           rest == SelectSeq(memo, LAMBDA e : e.key # key)
           kept == IF Len(rest) > cacheSize THEN Tail(rest) ELSE rest
       IN  [memo |-> Append(kept, [key |-> key, score |-> score]), score |-> score]

\* _calculate on two normalized texts with useCache on: memo is _cache
\* before the call; the result is _cache after it and the score
_calculate(memo, a, b) ==
  IF a = b THEN [memo |-> memo, score |-> One]
  ELSE IF a = <<>> \/ b = <<>> THEN [memo |-> memo, score |-> Zero]
  ELSE LET key == cacheKey(a, b)
       IN  IF \E i \in 1..Len(memo) : memo[i].key = key
             THEN [memo |-> memo,
                   score |-> memo[CHOOSE i \in 1..Len(memo) : memo[i].key = key].score]
             ELSE LET score == _levenshteinSim(a, b)
                      kept == IF Len(memo) > cacheSize THEN Tail(memo) ELSE memo
                  IN  [memo |-> Append(kept, [key |-> key, score |-> score]),
                       score |-> score]

\* a faulty variant: a score equal to the threshold counts as a match
RECURSIVE match_loop_ge(_, _, _, _, _, _)
match_loop_ge(memo, normalized, pool, threshold, i, best) ==
  IF i > Len(pool) THEN [memo |-> memo, best |-> best]
  ELSE LET c == _calculate(memo, normalized, _normalize(pool[i].value))
       IN  IF ~GT(threshold, c.score) /\ (best = Null \/ GT(c.score, best.score))
             THEN match_loop_ge(c.memo, normalized, pool, threshold, i + 1,
                                [key |-> pool[i].key, query |-> pool[i].value,
                                 score |-> c.score])
             ELSE match_loop_ge(c.memo, normalized, pool, threshold, i + 1, best)

\* a faulty variant: a later candidate with the same score replaces the best
RECURSIVE match_loop_last(_, _, _, _, _, _)
match_loop_last(memo, normalized, pool, threshold, i, best) ==
  IF i > Len(pool) THEN [memo |-> memo, best |-> best]
  ELSE LET c == _calculate(memo, normalized, _normalize(pool[i].value))
       IN  IF GT(c.score, threshold) /\ (best = Null \/ ~GT(best.score, c.score))
             THEN match_loop_last(c.memo, normalized, pool, threshold, i + 1,
                                  [key |-> pool[i].key, query |-> pool[i].value,
                                   score |-> c.score])
             ELSE match_loop_last(c.memo, normalized, pool, threshold, i + 1, best)

\* the loop of findBestMatch over the pool (a sequence of [key, value]) from
\* index i on; best is null or {key, query, score}
RECURSIVE match_loop(_, _, _, _, _, _)
match_loop(memo, normalized, pool, threshold, i, best) ==
  IF i > Len(pool) THEN [memo |-> memo, best |-> best]
  ELSE LET c == _calculate(memo, normalized, _normalize(pool[i].value))
       IN  IF GT(c.score, threshold) /\ (best = Null \/ GT(c.score, best.score))
             THEN match_loop(c.memo, normalized, pool, threshold, i + 1,
                             [key |-> pool[i].key, query |-> pool[i].value,
                              score |-> c.score])
             ELSE match_loop(c.memo, normalized, pool, threshold, i + 1, best)

\* the loop of findBestMatch with useCache off: every score is computed
RECURSIVE match_loop_plain(_, _, _, _, _)
match_loop_plain(normalized, pool, threshold, i, best) ==
  IF i > Len(pool) THEN best
  ELSE LET candidate == _normalize(pool[i].value)
           score == IF normalized = candidate THEN One
                    ELSE IF normalized = <<>> \/ candidate = <<>> THEN Zero
                    ELSE _levenshteinSim(normalized, candidate)
       IN  IF GT(score, threshold) /\ (best = Null \/ GT(score, best.score))
             THEN match_loop_plain(normalized, pool, threshold, i + 1,
                                   [key |-> pool[i].key, query |-> pool[i].value,
                                    score |-> score])
             ELSE match_loop_plain(normalized, pool, threshold, i + 1, best)

\* findBestMatch: what it leaves in _cache and what it returns
findBestMatch(query, pool, threshold) ==
  IF ~simEnabled \/ ~Truthy(query) THEN [memo |-> _cache, best |-> Null]
  ELSE match_loop(_cache, _normalize(query), pool, threshold, 1, Null)

-----------------------------------------------------------------------------
(* storeService (cache-store.js): the Map and its operations.  Each        *)
(* operator takes the map m and the clock reading t and gives the new map  *)
(* and what the method returns.                                            *)

Entry(k, v, c, e) == [key |-> k, value |-> v, createdAt |-> c, expiresAt |-> e]

\* Map.prototype.keys, in insertion order
MapKeys(m) == [i \in 1..Len(m) |-> m[i].key]
MapHas(m, k) == \E i \in 1..Len(m) : m[i].key = k
\* Map.prototype.get: the entry, or undefined
MapGet(m, k) ==
  IF MapHas(m, k) THEN m[CHOOSE i \in 1..Len(m) : m[i].key = k] ELSE Undefined
\* Map.prototype.set: an existing key keeps its place, a new one goes last
MapSet(m, e) ==
  IF MapHas(m, e.key)
    THEN [i \in 1..Len(m) |-> IF m[i].key = e.key THEN e ELSE m[i]]
    ELSE Append(m, e)
\* Map.prototype.delete
MapDelete(m, k) == SelectSeq(m, LAMBDA e : e.key # k)

\* a faulty variant: the ttl is forgotten, the entry expires as it is written
store_set_no_ttl(m, key, value, ttl, t) ==
  MapSet(m, Entry(key, value, t, t))

\* a faulty variant: every set adds an entry, also for a key the map holds
store_set_append(m, key, value, ttl, t) ==
  Append(m, Entry(key, value, t, t + ttl))

store_set(m, key, value, ttl, t) ==
  MapSet(m, Entry(key, value, t, t + ttl))

store_get(m, key, t) ==
  LET item == MapGet(m, key)
  IN  IF item = Undefined THEN [map |-> m, item |-> Null]
      ELSE IF item.expiresAt < t THEN [map |-> MapDelete(m, key), item |-> Null]
      ELSE [map |-> m, item |-> item]

store_remove(m, key) == [map |-> MapDelete(m, key), result |-> MapHas(m, key)]

\* a faulty variant: every entry is judged by the expiresAt of the first
\* entry of the map
RECURSIVE cleanup_loop_first(_, _, _, _, _)
cleanup_loop_first(m, i, acc, removed, t) ==
  IF i > Len(m) THEN [map |-> acc, removed |-> removed]
  ELSE IF m[1].expiresAt < t
    THEN cleanup_loop_first(m, i + 1, MapDelete(acc, m[i].key), removed + 1, t)
    ELSE cleanup_loop_first(m, i + 1, acc, removed, t)

\* the loop of cleanup over the entries from index i on: acc is the map so
\* far, removed the count so far
RECURSIVE cleanup_loop(_, _, _, _, _)
cleanup_loop(m, i, acc, removed, t) ==
  IF i > Len(m) THEN [map |-> acc, removed |-> removed]
  ELSE IF m[i].expiresAt < t
    THEN cleanup_loop(m, i + 1, MapDelete(acc, m[i].key), removed + 1, t)
    ELSE cleanup_loop(m, i + 1, acc, removed, t)

\* a faulty variant: the sweep also takes the entries that expire right now
store_cleanup_le(m, t) ==
  [map |-> SelectSeq(m, LAMBDA e : ~(e.expiresAt <= t)),
   removed |-> Len(m) - Len(SelectSeq(m, LAMBDA e : ~(e.expiresAt <= t)))]

store_cleanup(m, t) == cleanup_loop(m, 1, m, 0, t)

store_getKeys(m) == MapKeys(m)

\* a faulty variant: the snapshot leaves createdAt out, and the loader reads 0
snapshot_no_created(m) ==
  [json |-> [i \in 1..Len(m) |->
      Entry(m[i].key, ToJson(m[i].value), 0, m[i].expiresAt)]]

\* the text _persistToDisk writes: the array of {key, ...val}
snapshot(m) ==
  [json |-> [i \in 1..Len(m) |->
      Entry(m[i].key, ToJson(m[i].value), m[i].createdAt, m[i].expiresAt)]]

\* store.json: missing, there but not readable, or holding a text
NoFile == [exists |-> FALSE]
Unreadable == [exists |-> TRUE, readable |-> FALSE]
FileOf(text) == [exists |-> TRUE, readable |-> TRUE, text |-> text]

\* texts that are not a snapshot: no JSON at all, and the JSON of a value
\* that is not an array
Garbage == [garbage |-> TRUE]
NotArray(v) == [value |-> v]
\* the element null of a JSON array
NullItem == [bad |-> "null"]

\* the loop of _loadFromDisk over the parsed entries from index i on; reading
\* item.expiresAt of null throws, and the catch ends the loop where it is
RECURSIVE load_loop(_, _, _, _)
load_loop(entries, i, acc, t) ==
  IF i > Len(entries) THEN acc
  ELSE IF "bad" \in DOMAIN entries[i] THEN acc
  ELSE IF entries[i].expiresAt > t
    THEN load_loop(entries, i + 1, MapSet(acc, entries[i]), t)
    ELSE load_loop(entries, i + 1, acc, t)

\* a faulty variant: the loader restores every entry of the file
_loadFromDisk_all(m, f, t) ==
  IF ~f.exists THEN m
  ELSE IF ~f.readable THEN m
  ELSE IF "json" \notin DOMAIN f.text THEN m
  ELSE LET entries == Parse(f.text)
       IN  [i \in 1..Len(entries) |-> entries[i]]

\* readFile throws on a missing or unreadable file, JSON.parse on a text that
\* is no JSON, for...of on a value that is not iterable: the catch leaves the
\* map as it is
_loadFromDisk(m, f, t) ==
  IF ~f.exists THEN m
  ELSE IF ~f.readable THEN m
  ELSE IF "json" \notin DOMAIN f.text THEN m
  ELSE load_loop(Parse(f.text), 1, m, t)

-----------------------------------------------------------------------------
(* statsService (cache-stats.js, in cache-config.js)                       *)

\* the scopes recordError is called with
Scopes == {"store", "codec"}
\* errors: {}: no scope has an array
NoErrors == [s \in Scopes |-> <<>>]

\* no cacheModule.get is under way
NoScan == [phase |-> "idle"]

\* nothing returned by getStats is held
NoSnapshot == [taken |-> FALSE]
\* getStats: { ...this._data }.  The counters are copied; errors is the
\* same object as _data.errors (shared) until initialize gives _data a
\* new one, after which the snapshot keeps the old object (own)
getStats(d) ==
  [taken |-> TRUE, shared |-> TRUE, own |-> NoErrors,
   counters |-> [f \in DOMAIN d \ {"errors"} |-> d[f]]]
\* what a holder of the snapshot h reads in it, _data being d
Seen(h, d) ==
  [counters |-> h.counters, errors |-> IF h.shared THEN d.errors ELSE h.own]
\* statsService.initialize gives _data a new errors object: a snapshot that
\* shared the old one keeps it
Detached(h, d) ==
  IF h.taken /\ h.shared THEN [h EXCEPT !.shared = FALSE, !.own = d.errors] ELSE h

\* this._data.errors[scope] = this._data.errors[scope] || []; push(message)
recordError(d, scope, message) ==
  [d EXCEPT !.errors = [@ EXCEPT ![scope] = Append(@, message)]]

recordSet(d) == [d EXCEPT !.sets = @ + 1]
recordGet(d, hit) ==
  IF hit THEN [d EXCEPT !.gets = @ + 1, !.hits = @ + 1]
         ELSE [d EXCEPT !.gets = @ + 1, !.misses = @ + 1]
recordRemove(d) == [d EXCEPT !.removed = @ + 1]
recordCleanup(d, count) == [d EXCEPT !.cleaned = @ + count]
recordClear(d) == [d EXCEPT !.clears = @ + 1]

-----------------------------------------------------------------------------
(* cacheModule (cache-index.js).  Each operator takes the map m, the       *)
(* counters d and the clock reading t, and gives the new map, the new      *)
(* counters and what the method returns or throws.                         *)

\* _config.ttl, in the time unit of the model
CacheTtl == 1

\* the object store.get returns: {value, createdAt, expiresAt}
EntryObj(e) ==
  Obj([value |-> e.value, createdAt |-> Num(e.createdAt), expiresAt |-> Num(e.expiresAt)])

Options(k) == [key |-> k, userId |-> Undefined, model |-> Undefined]

\* the hex digest of md5 over a text: an injective stand-in
Md5(base) == <<"#">> \o base
OrEmpty(v) == IF Truthy(v) THEN v.s ELSE <<>>

\* a faulty variant: the query goes into the key as it was typed
_generateKey_raw(query, options) ==
  <<"c", "a", "c", "h", "e", ":">>
    \o Md5(query.s \o <<"|">> \o OrEmpty(options.userId) \o <<"|">> \o OrEmpty(options.model))

\* _generateKey(query, options) for a query that is a string
_generateKey(query, options) ==
  LET base == trim(toLowerCase(query.s)) \o <<"|">> \o OrEmpty(options.userId)
                \o <<"|">> \o OrEmpty(options.model)
  IN  <<"c", "a", "c", "h", "e", ":">> \o Md5(base)

Out(m, d, r) == [map |-> m, data |-> d, result |-> r]

cache_set(m, d, query, response, options, t) ==
  IF ~enabled THEN Out(m, d, Ok(Bool(FALSE)))
  ELSE IF ~Truthy(options.key) /\ query.t # "string" THEN Out(m, d, Throw("TypeError"))
  ELSE LET key == IF Truthy(options.key) THEN options.key.s
                  ELSE _generateKey(query, options)
           payload == Obj([query |-> query, response |-> response,
                           meta |-> Obj([ts |-> Num(t), key |-> Str(key)])])
           stored == IF compEnabled /\ Stringify(payload).len > minLength
                       THEN compress(payload) ELSE Ok(payload)
       IN  IF ~stored.ok THEN Out(m, d, stored)
           ELSE Out(store_set(m, key, stored.v, CacheTtl, t), recordSet(d), Ok(Bool(TRUE)))

\* cached.response, after the decompression _getByKey and _findSimilar do
\* on the object they hold
Unwrap(obj) ==
  IF Truthy(Prop(obj, "compressed")) THEN decompress(obj) ELSE Ok(obj)

_getByKey(m, key, t) ==
  LET r == store_get(m, key, t)
  IN  IF r.item = Null THEN [map |-> r.map, result |-> Ok(Null)]
      ELSE LET cached == Unwrap(EntryObj(r.item))
           IN  IF ~cached.ok THEN [map |-> r.map, result |-> cached]
               ELSE IF Nullish(cached.v) THEN [map |-> r.map, result |-> Throw("TypeError")]
               ELSE [map |-> r.map, result |-> Ok(Prop(cached.v, "response"))]

\* the loop of _findSimilar over the keys from index i on: pool is the
\* sequence of [key, value] built so far
RECURSIVE pool_loop(_, _, _, _, _)
pool_loop(m, keys, i, pool, t) ==
  IF i > Len(keys) THEN [map |-> m, pool |-> Ok(pool)]
  ELSE LET r == store_get(m, keys[i], t)
       IN  IF r.item = Null THEN [map |-> r.map, pool |-> Throw("TypeError")]
           ELSE LET item == EntryObj(r.item)
                    full == Unwrap(item)
                IN  IF ~full.ok THEN [map |-> r.map, pool |-> full]
                    ELSE IF Nullish(full.v) THEN [map |-> r.map, pool |-> Throw("TypeError")]
                    ELSE pool_loop(r.map, keys, i + 1,
                                   Append(pool, [key |-> keys[i], value |-> Prop(full.v, "query")]),
                                   t)

_findSimilar(m, query, t) ==
  LET p == pool_loop(m, store_getKeys(m), 1, <<>>, t)
  IN  IF ~p.pool.ok THEN [map |-> p.map, result |-> p.pool]
      ELSE LET best == findBestMatch(query, p.pool.v, Threshold).best
           IN  IF best = Null THEN [map |-> p.map, result |-> Ok(Null)]
               ELSE LET r == store_get(p.map, best.key, t)
                    IN  IF r.item = Null THEN [map |-> r.map, result |-> Throw("TypeError")]
                        ELSE [map |-> r.map, result |-> Unwrap(EntryObj(r.item))]

cache_get(m, d, query, options, t) ==
  IF ~enabled THEN Out(m, d, Ok(Null))
  ELSE IF Truthy(options.key)
    THEN LET g == _getByKey(m, options.key.s, t)
         IN  IF ~g.result.ok THEN Out(g.map, d, g.result)
             ELSE Out(g.map, recordGet(d, Truthy(g.result.v)), g.result)
  ELSE IF simEnabled
    THEN LET f == _findSimilar(m, query, t)
         IN  IF ~f.result.ok THEN Out(f.map, d, f.result)
             ELSE IF Truthy(f.result.v)
               THEN Out(f.map, recordGet(d, TRUE), Ok(Prop(f.result.v, "response")))
               ELSE Out(f.map, recordGet(d, FALSE), Ok(Null))
  ELSE Out(m, recordGet(d, FALSE), Ok(Null))

cache_remove(m, d, key) ==
  LET r == store_remove(m, key)
  IN  Out(r.map, recordRemove(d), Ok(Bool(r.result)))

\* a faulty variant: the sweep is not made
cache_cleanup_idle(m, d, t) == Out(m, d, Ok(Num(0)))

cache_cleanup(m, d, t) ==
  LET r == store_cleanup(m, t)
  IN  Out(r.map, recordCleanup(d, r.removed), Ok(Num(r.removed)))

cache_clear(m, d) == Out(<<>>, recordClear(d), Ok(Bool(TRUE)))

-----------------------------------------------------------------------------
(* The state after the modules are loaded, and the inputs.                 *)

DefaultMinLength == 500

K1 == <<"k", "1">>
K2 == <<"k", "2">>
Keys == {K1, K2}
TTLs == {0, 1, 2}
StoreValues == {Str(<<"a">>), Obj([response |-> Str(<<"b">>)])}

\* the value the snapshot runs store under each key
DiskValue(k) == IF k = K1 THEN Str(<<"a">>) ELSE Obj([response |-> Str(<<"b">>)])

SmallMinLength == 68

Q1 == Str(<<"h", "i">>)
Q2 == Str(<<"H", "i", "!">>)
QBang == Str(<<"!">>)
R1 == Str(<<"x">>)
R2 == Str([i \in 1..16 |-> "x"])
SetQueries == {Q1, Q2}
GetQueries == {Q1, Q2, QBang}
Responses == {R1, R2}
KeyOptions == {Undefined, Str(K1)}
FacadeKeys == {K1} \cup {_generateKey(q, Options(Undefined)) : q \in SetQueries}

AllKeys == Keys \cup FacadeKeys

NotWritten == [set |-> FALSE]
\* what a set wrote: its query (the facade's), its value, its time and ttl
Written(q, v, t0, ttl) == [set |-> TRUE, query |-> q, value |-> v, t0 |-> t0, ttl |-> ttl]
NoneWritten == [k \in AllKeys |-> NotWritten]
NoStats == [sets |-> 0, gets |-> 0, hits |-> 0, misses |-> 0, errors |-> NoErrors,
            clears |-> 0, removed |-> 0, cleaned |-> 0]

InitBase ==
  /\ now = 0
  /\ _store = <<>>
  /\ persistence = TRUE
  /\ _timer = 0
  /\ _interval = 0
  /\ timers = {}
  /\ nextId = 1
  /\ file = NoFile
  /\ enabled = TRUE
  /\ simEnabled = TRUE
  /\ compEnabled = TRUE
  /\ minLength = DefaultMinLength
  /\ _cache = <<>>
  /\ _data = NoStats
  /\ last = [op |-> "load"]
  /\ written = NoneWritten
  /\ saved = <<>>
  /\ writing = <<>>
  /\ held = NoSnapshot
  /\ scan = NoScan
  /\ _invalidatedTokens = {}
  /\ revoked = {}
  /\ _requests = <<>>
  /\ asked = <<>>
  /\ codec = [phase |-> "idle"]

\* the clock advances
Tick ==
  /\ now < MaxTime
  /\ now' = now + 1
  /\ last' = [op |-> "tick"]
  /\ UNCHANGED <<_store, persistence, _timer, _interval, timers, nextId, file,
                 enabled, simEnabled, compEnabled, minLength, _cache, _data,
                 written, saved, writing, held, scan, apiVars, codec>>

-----------------------------------------------------------------------------
(* storeService called directly.                                           *)

facadeVars == <<_interval, enabled, simEnabled, compEnabled, minLength, _cache,
                _data, held, scan, apiVars, codec>>
diskVars == <<persistence, _timer, timers, nextId, file, saved, writing>>

StoreSet(k, v, ttl) ==
  /\ _store' = store_set(_store, k, v, ttl, now)
  /\ last' = [op |-> "set", key |-> k, result |-> TRUE]
  /\ written' = [written EXCEPT ![k] = Written(Undefined, v, now, ttl)]
  /\ UNCHANGED <<now, facadeVars, diskVars>>

StoreGet(k) ==
  LET r == store_get(_store, k, now)
  IN  /\ _store' = r.map
      /\ last' = [op |-> "get", key |-> k, result |-> r.item]
      /\ UNCHANGED <<now, written, facadeVars, diskVars>>

StoreRemove(k) ==
  LET r == store_remove(_store, k)
  IN  /\ _store' = r.map
      /\ last' = [op |-> "remove", key |-> k, result |-> r.result]
      /\ written' = [written EXCEPT ![k] = NotWritten]
      /\ UNCHANGED <<now, facadeVars, diskVars>>

StoreClear ==
  /\ _store' = <<>>
  /\ last' = [op |-> "clear", result |-> TRUE]
  /\ written' = NoneWritten
  /\ UNCHANGED <<now, facadeVars, diskVars>>

StoreCleanup ==
  LET r == store_cleanup(_store, now)
  IN  /\ _store' = r.map
      /\ last' = [op |-> "cleanup", result |-> r.removed]
      /\ UNCHANGED <<now, written, facadeVars, diskVars>>

StoreGetKeys ==
  /\ last' = [op |-> "getKeys", result |-> store_getKeys(_store)]
  /\ UNCHANGED <<now, _store, written, facadeVars, diskVars>>

\* _persistToDisk: the copy of the entries is taken and written
_persistToDisk ==
  IF ~persistence THEN UNCHANGED <<file, saved>>
  ELSE /\ file' = FileOf(snapshot(_store))
       /\ saved' = _store

\* initialize(config), p being the persistence the merged configuration has
store_initialize(p) ==
  /\ persistence' = p
  /\ IF p
       THEN /\ _store' = _loadFromDisk(<<>>, file, now)
            /\ _timer' = nextId
            /\ timers' = timers \cup {[id |-> nextId, kind |-> "persist"]}
            /\ nextId' = nextId + 1
       ELSE /\ _store' = <<>>
            /\ UNCHANGED <<_timer, timers, nextId>>
  /\ written' = NoneWritten

store_shutdown ==
  /\ timers' = {tm \in timers : ~(_timer # 0 /\ tm.id = _timer)}
  /\ _persistToDisk
  /\ _store' = <<>>
  /\ written' = NoneWritten

StoreInitialize(p) ==
  /\ nextId <= MaxTimers
  /\ store_initialize(p)
  /\ last' = [op |-> "initialize", loaded |-> p, raised |-> FALSE]
  /\ UNCHANGED <<now, file, saved, writing, facadeVars>>

StoreShutdown ==
  /\ store_shutdown
  /\ last' = [op |-> "shutdown"]
  /\ UNCHANGED <<now, persistence, _timer, nextId, writing, facadeVars>>

\* a persistence timer that is still scheduled fires
PersistTick ==
  /\ \E tm \in timers : tm.kind = "persist"
  /\ _persistToDisk
  /\ last' = [op |-> "persistTick"]
  /\ UNCHANGED <<now, _store, written, persistence, _timer, timers, nextId, writing,
                 facadeVars>>

InitStore == InitBase

NextStore ==
  \/ Tick
  \/ \E k \in Keys, v \in StoreValues, ttl \in TTLs : StoreSet(k, v, ttl)
  \/ \E k \in Keys : StoreGet(k)
  \/ \E k \in Keys : StoreRemove(k)
  \/ StoreClear
  \/ StoreCleanup
  \/ StoreGetKeys

SpecStore == InitStore /\ [][NextStore]_vars

\* the store with its snapshot file: initialize, shutdown and the timer
NextDisk ==
  \/ Tick
  \/ \E k \in Keys, ttl \in TTLs \ {0} : StoreSet(k, DiskValue(k), ttl)
  \/ \E p \in BOOLEAN : StoreInitialize(p)
  \/ StoreShutdown
  \/ PersistTick

SpecDisk == InitStore /\ [][NextDisk]_vars

\* the file is a snapshot as _persistToDisk writes it
WellFormed(f) ==
  /\ f.exists
  /\ f.readable
  /\ "json" \in DOMAIN f.text
  /\ \A i \in 1..Len(f.text.json) : "bad" \notin DOMAIN f.text.json[i]

\* what the snapshot file can be found to be when something other than the
\* store has touched it: gone, unreadable, no JSON, JSON that is no array, or
\* the array with a null element at its end or at its start
Damaged(f) ==
  {NoFile, Unreadable, FileOf(Garbage), FileOf(NotArray(Null)),
   FileOf(NotArray(Obj([key |-> Str(K1)])))}
  \cup (IF WellFormed(f)
         THEN {FileOf([json |-> Append(f.text.json, NullItem)]),
               FileOf([json |-> <<NullItem>> \o f.text.json])}
         ELSE {})

FileDamaged(g) ==
  /\ g \in Damaged(file)
  /\ file' = g
  /\ last' = [op |-> "damage"]
  /\ UNCHANGED <<now, _store, written, persistence, _timer, timers, nextId, saved,
                 writing, facadeVars>>

\* the store with a snapshot file that can be damaged between the runs
NextLoad ==
  \/ Tick
  \/ \E k \in Keys : StoreSet(k, DiskValue(k), MaxTime)
  \/ \E p \in BOOLEAN : StoreInitialize(p)
  \/ StoreShutdown
  \/ \E g \in Damaged(file) : FileDamaged(g)

SpecLoad == InitStore /\ [][NextLoad]_vars

-----------------------------------------------------------------------------
(* _persistToDisk as the two steps it is: up to its await (the copy of the *)
(* entries is taken and serialized, fs.writeFile is called) and the        *)
(* settling of that call, with whatever runs in between.                   *)

\* the timer callback () => this._persistToDisk(): nobody awaits the promise
PersistStart ==
  /\ \E tm \in timers : tm.kind = "persist"
  /\ persistence
  /\ Len(writing) < MaxWrites
  /\ writing' = Append(writing, [by |-> "timer", copy |-> _store])
  /\ last' = [op |-> "persistStart"]
  /\ UNCHANGED <<now, _store, written, persistence, _timer, timers, nextId, file,
                 saved, facadeVars>>

\* shutdown up to its await: clearInterval, then _persistToDisk is called
ShutdownStart ==
  /\ Len(writing) < MaxWrites
  /\ timers' = {tm \in timers : ~(_timer # 0 /\ tm.id = _timer)}
  /\ IF persistence
       THEN /\ writing' = Append(writing, [by |-> "shutdown", copy |-> _store])
            /\ UNCHANGED <<_store, written>>
       ELSE /\ _store' = <<>>
            /\ written' = NoneWritten
            /\ UNCHANGED writing
  /\ last' = [op |-> "shutdownStart"]
  /\ UNCHANGED <<now, persistence, _timer, nextId, file, saved, facadeVars>>

\* the i-th pending fs.writeFile settles: it resolves (ok) or rejects.  The
\* file then holds the text written, or what it held before when the call
\* failed before it opened the file; torn, it holds a text that is neither:
\* a write that failed after it truncated the file, or two calls that wrote
\* to the file at the same time.  A rejection reaches the code that awaits:
\* shutdown, which then does not clear the map, or nobody.
WriteSettled(i, ok, torn) ==
  LET w == writing[i]
  IN  /\ torn => (~ok \/ \E j \in 1..Len(writing) : writing[j].copy # w.copy)
      /\ writing' = [j \in 1..(Len(writing) - 1) |->
                       IF j < i THEN writing[j] ELSE writing[j + 1]]
      /\ file' = IF torn THEN FileOf(Garbage)
                 ELSE IF ok THEN FileOf(snapshot(w.copy))
                 ELSE file
      /\ saved' = IF ok /\ ~torn THEN w.copy ELSE saved
      /\ IF ok /\ w.by = "shutdown"
           THEN _store' = <<>> /\ written' = NoneWritten
           ELSE UNCHANGED <<_store, written>>
      /\ last' = [op |-> "settled", by |-> w.by, ok |-> ok, copy |-> w.copy,
                  unhandled |-> ~ok /\ w.by = "timer",
                  raised |-> ~ok /\ w.by = "shutdown"]
      /\ UNCHANGED <<now, persistence, _timer, timers, nextId, facadeVars>>

NextWrite ==
  \/ Tick
  \/ StoreSet(K1, DiskValue(K1), CacheTtl)
  \/ StoreRemove(K1)
  \/ StoreCleanup
  \/ StoreInitialize(TRUE)
  \/ PersistStart
  \/ ShutdownStart
  \/ \E i \in 1..Len(writing), ok \in BOOLEAN, torn \in BOOLEAN : WriteSettled(i, ok, torn)

SpecWrite == InitStore /\ [][NextWrite]_vars

\* cleanup called among the foreground calls and the persistence task.  An
\* async method of the store without an await in its body (cleanup, set, get,
\* remove) runs to its end within the call, so each is one step; the
\* persistence task is the two steps above, and the calls fall between them.
SweepTTLs == {0, 1}

\* the store is initialized once, with persistence
SweepInitialize ==
  /\ timers = {}
  /\ StoreInitialize(TRUE)

\* the persistence timer fires while no write is pending
SweepPersist ==
  /\ writing = <<>>
  /\ PersistStart

NextSweep ==
  \/ Tick
  \/ \E ttl \in SweepTTLs : StoreSet(K1, DiskValue(K1), ttl)
  \/ StoreSet(K2, DiskValue(K2), 0)
  \/ StoreGet(K1)
  \/ StoreRemove(K2)
  \/ StoreCleanup
  \/ SweepInitialize
  \/ SweepPersist
  \/ \E i \in 1..Len(writing) : WriteSettled(i, TRUE, FALSE)

SpecSweep == InitStore /\ [][NextSweep]_vars

\* one life of the store: initialize with persistence, calls and timer
\* writes, then shutdown.  Every write of the timer that is pending once
\* shutdown has begun was started before it, as clearInterval is the first
\* thing shutdown does.
HaltInitialize ==
  /\ nextId = 1
  /\ StoreInitialize(TRUE)

HaltStart ==
  /\ timers # {}
  /\ ShutdownStart

NextHalt ==
  \/ Tick
  \/ \E k \in Keys : StoreSet(k, DiskValue(k), CacheTtl)
  \/ StoreRemove(K1)
  \/ HaltInitialize
  \/ PersistStart
  \/ HaltStart
  \/ \E i \in 1..Len(writing), torn \in BOOLEAN : WriteSettled(i, TRUE, torn)

SpecHalt == InitStore /\ [][NextHalt]_vars

-----------------------------------------------------------------------------
(* cacheModule called by its clients.                                      *)

storeVars == <<persistence, _timer, timers, nextId, file, saved, writing>>

\* what a call added to the counters gets, hits and misses
Recorded(d, e) ==
  [gets |-> e.gets - d.gets, hits |-> e.hits - d.hits, misses |-> e.misses - d.misses]

\* the key set stores under: options.key || _generateKey(query, options)
KeyOf(query, k) == IF Truthy(k) THEN k.s ELSE _generateKey(query, Options(k))
configVars == <<_interval, enabled, simEnabled, compEnabled, minLength, _cache, held, scan, apiVars, codec>>

\* the counters stay below the bound
Countable == _data.sets + _data.gets + _data.removed + _data.clears < MaxOps

CacheSet(query, response, k) ==
  LET r == cache_set(_store, _data, query, response, Options(k), now)
  IN  /\ Countable
      /\ _store' = r.map
      /\ _data' = r.data
      /\ last' = [op |-> "set", query |-> query, response |-> response, key |-> k,
                  result |-> r.result]
      /\ written' = IF r.result = Ok(Bool(TRUE))
                      THEN [written EXCEPT ![KeyOf(query, k)] =
                              Written(query, response, now, CacheTtl)]
                      ELSE written
      /\ UNCHANGED <<now, storeVars, configVars>>

CacheGet(query, k) ==
  LET r == cache_get(_store, _data, query, Options(k), now)
  IN  /\ Countable
      /\ _store' = r.map
      /\ _data' = r.data
      /\ last' = [op |-> "get", query |-> query, key |-> k, result |-> r.result,
                  recorded |-> Recorded(_data, r.data)]
      /\ UNCHANGED <<now, written, storeVars, configVars>>

CacheRemove(key) ==
  LET r == cache_remove(_store, _data, key)
  IN  /\ Countable
      /\ _store' = r.map
      /\ _data' = r.data
      /\ last' = [op |-> "remove", key |-> Str(key), result |-> r.result]
      /\ written' = [written EXCEPT ![key] = NotWritten]
      /\ UNCHANGED <<now, storeVars, configVars>>

CacheClear ==
  LET r == cache_clear(_store, _data)
  IN  /\ Countable
      /\ _store' = r.map
      /\ _data' = r.data
      /\ last' = [op |-> "clear", result |-> r.result]
      /\ written' = NoneWritten
      /\ UNCHANGED <<now, storeVars, configVars>>

CacheCleanup ==
  LET r == cache_cleanup(_store, _data, now)
  IN  /\ _store' = r.map
      /\ _data' = r.data
      /\ last' = [op |-> "cleanup", result |-> r.result]
      /\ UNCHANGED <<now, written, storeVars, configVars>>

\* a cleanup timer that is still scheduled fires: () => this.cleanup()
CleanupTick ==
  LET r == cache_cleanup(_store, _data, now)
  IN  /\ \E tm \in timers : tm.kind = "cleanup"
      /\ _store' = r.map
      /\ _data' = r.data
      /\ last' = [op |-> "cleanupTick", result |-> r.result]
      /\ UNCHANGED <<now, written, storeVars, configVars>>

\* the modules as loaded, or as initialize leaves them for a configuration
\* without persistence and with a cleanup interval
Init ==
  \/ InitBase
  \/ /\ now = 0
     /\ _store = <<>>
     /\ persistence = FALSE
     /\ _timer = 0
     /\ _interval = 1
     /\ timers = {[id |-> 1, kind |-> "cleanup"]}
     /\ nextId = 2
     /\ file = NoFile
     /\ enabled = TRUE
     /\ simEnabled \in BOOLEAN
     /\ compEnabled = TRUE
     /\ minLength \in {DefaultMinLength, SmallMinLength}
     /\ _cache = <<>>
     /\ _data = NoStats
     /\ last = [op |-> "initialize"]
     /\ written = NoneWritten
     /\ saved = <<>>
     /\ writing = <<>>
     /\ held = NoSnapshot
     /\ scan = NoScan
     /\ _invalidatedTokens = {}
     /\ revoked = {}
     /\ _requests = <<>>
     /\ asked = <<>>
     /\ codec = [phase |-> "idle"]

Next ==
  \/ Tick
  \/ \E q \in SetQueries, r \in Responses, k \in KeyOptions : CacheSet(q, r, k)
  \/ \E q \in GetQueries, k \in KeyOptions : CacheGet(q, k)
  \/ \E key \in FacadeKeys : CacheRemove(key)
  \/ CacheClear
  \/ CacheCleanup
  \/ CleanupTick

Spec == Init /\ [][Next]_vars

-----------------------------------------------------------------------------
(* cacheModule.get without options.key as the steps it is: _findSimilar    *)
(* awaits store.getKeys(), then store.get(key) for each key, then          *)
(* findBestMatch, then store.get(best.key); whatever else is called runs   *)
(* between two of these steps.                                             *)

\* the get of the scan under way ends: it returns or throws r
ScanEnds(d, r) ==
  /\ scan' = NoScan
  /\ _data' = d
  /\ last' = [op |-> "get", query |-> scan.query, key |-> Undefined, result |-> r,
              recorded |-> Recorded(_data, d)]

\* get up to its first await: the key list is taken
ScanStart(query) ==
  /\ enabled
  /\ simEnabled
  /\ scan = NoScan
  /\ _invalidatedTokens = {}
  /\ revoked = {}
  /\ _requests = <<>>
  /\ asked = <<>>
  /\ Countable
  /\ scan' = [phase |-> "keys", query |-> query, keys |-> store_getKeys(_store),
              i |-> 1, pool |-> <<>>]
  /\ last' = [op |-> "getStart", query |-> query]
  /\ UNCHANGED <<now, _store, _data, written, storeVars, _interval, enabled,
                 simEnabled, compEnabled, minLength, _cache, held, apiVars, codec>>

\* one turn of the loop over the keys: store.get(key), then item.compressed
\* and the query of the item
ScanStep ==
  /\ scan.phase = "keys"
  /\ scan.i <= Len(scan.keys)
  /\ LET r == store_get(_store, scan.keys[scan.i], now)
         full == Unwrap(EntryObj(r.item))
     IN  /\ _store' = r.map
         /\ IF r.item = Null THEN ScanEnds(_data, Throw("TypeError"))
            ELSE IF ~full.ok THEN ScanEnds(_data, full)
            ELSE IF Nullish(full.v) THEN ScanEnds(_data, Throw("TypeError"))
            ELSE /\ scan' = [scan EXCEPT
                               !.i = @ + 1,
                               !.pool = Append(@, [key |-> scan.keys[scan.i],
                                                   value |-> Prop(full.v, "query")])]
                 /\ last' = [op |-> "scanStep"]
                 /\ UNCHANGED _data
  /\ UNCHANGED <<now, written, storeVars, _interval, enabled, simEnabled,
                 compEnabled, minLength, _cache, held, apiVars, codec>>

\* the loop is over: findBestMatch over the queries collected
ScanMatch ==
  /\ scan.phase = "keys"
  /\ scan.i > Len(scan.keys)
  /\ LET best == findBestMatch(scan.query, scan.pool, Threshold).best
     IN  IF best = Null THEN ScanEnds(recordGet(_data, FALSE), Ok(Null))
         ELSE /\ scan' = [phase |-> "best", query |-> scan.query, key |-> best.key]
              /\ last' = [op |-> "scanMatch"]
              /\ UNCHANGED _data
  /\ UNCHANGED <<now, _store, written, storeVars, _interval, enabled, simEnabled,
                 compEnabled, minLength, _cache, held, apiVars, codec>>

\* store.get(best.key), item.compressed, and the rest of get
ScanFetch ==
  /\ scan.phase = "best"
  /\ LET r == store_get(_store, scan.key, now)
         f == Unwrap(EntryObj(r.item))
     IN  /\ _store' = r.map
         /\ IF r.item = Null THEN ScanEnds(_data, Throw("TypeError"))
            ELSE IF ~f.ok THEN ScanEnds(_data, f)
            ELSE IF Truthy(f.v)
              THEN ScanEnds(recordGet(_data, TRUE), Ok(Prop(f.v, "response")))
              ELSE ScanEnds(recordGet(_data, FALSE), Ok(Null))
  /\ UNCHANGED <<now, written, storeVars, _interval, enabled, simEnabled,
                 compEnabled, minLength, _cache, held, apiVars, codec>>

NextScan ==
  \/ Tick
  \/ \E q \in SetQueries : CacheSet(q, R1, Undefined)
  \/ \E key \in FacadeKeys : CacheRemove(key)
  \/ CacheClear
  \/ CacheCleanup
  \/ \E q \in GetQueries : ScanStart(q)
  \/ ScanStep
  \/ ScanMatch
  \/ ScanFetch

SpecScan == InitBase /\ [][NextScan]_vars

-----------------------------------------------------------------------------
(* cacheModule.set around the compression threshold: the cache as          *)
(* initialize leaves it for a configuration whose compression.minLength is *)
(* the serialized length of one of the payloads, or one less or one more.  *)

\* the payload set builds at time t under the key it generates
PayloadAt(query, response, k, t) ==
  Obj([query |-> query, response |-> response,
       meta |-> Obj([ts |-> Num(t), key |-> Str(KeyOf(query, k))])])

EdgeLength == Stringify(PayloadAt(Q2, R1, Undefined, 0)).len
EdgeMinLengths == {EdgeLength - 1, EdgeLength, EdgeLength + 1}

InitEdge ==
  /\ now = 0
  /\ _store = <<>>
  /\ persistence = FALSE
  /\ _timer = 0
  /\ _interval = 0
  /\ timers = {}
  /\ nextId = 1
  /\ file = NoFile
  /\ enabled = TRUE
  /\ simEnabled = TRUE
  /\ compEnabled \in BOOLEAN
  /\ minLength \in EdgeMinLengths
  /\ _cache = <<>>
  /\ _data = NoStats
  /\ last = [op |-> "initialize"]
  /\ written = NoneWritten
  /\ saved = <<>>
  /\ writing = <<>>
  /\ held = NoSnapshot
  /\ scan = NoScan
  /\ _invalidatedTokens = {}
  /\ revoked = {}
  /\ _requests = <<>>
  /\ asked = <<>>
  /\ codec = [phase |-> "idle"]

NextEdge ==
  \/ Tick
  \/ \E q \in SetQueries, r \in Responses, k \in KeyOptions : CacheSet(q, r, k)
  \/ \E key \in FacadeKeys : CacheRemove(key)

SpecEdge == InitEdge /\ [][NextEdge]_vars

-----------------------------------------------------------------------------
(* cacheModule called with an empty or null query, and reading entries     *)
(* that carry the compressed tag over data that is no gzip stream.         *)

FaultQueries == {Null, Str(<<>>), Str(<<"h", "i">>)}
\* entries tagged compressed: data that is not base64 of a gzip stream, no
\* data at all, and a well-formed one
TaggedValues ==
  { Obj([compressed |-> Bool(TRUE), encoding |-> Str(gzip), data |-> Str(<<"x">>)]),
    Obj([compressed |-> Bool(TRUE), encoding |-> Str(gzip)]),
    Obj([compressed |-> Bool(TRUE), encoding |-> Str(gzip),
         data |-> B64(Gzip(Stringify(Obj([query |-> Str(<<"h", "i">>),
                                          response |-> Str(<<"x">>)])))),
         originalLength |-> Num(30)]) }

NextFault ==
  \/ Tick
  \/ \E q \in FaultQueries : CacheSet(q, Str(<<"x">>), Undefined)
  \/ \E q \in FaultQueries, k \in KeyOptions : CacheGet(q, k)
  \/ \E v \in TaggedValues : StoreSet(K1, v, CacheTtl)

SpecFault == Init /\ [][NextFault]_vars

-----------------------------------------------------------------------------
(* cacheModule.initialize and shutdown, and the timers they start and stop. *)

\* initialize(config): en, p and ci are what the merged configuration has
\* for enabled, persistence and cleanupInterval > 0
cache_initialize(en, p, ci) ==
  /\ enabled' = en
  /\ IF ~en
       THEN UNCHANGED <<_store, persistence, _timer, _interval, timers, nextId,
                        _cache, _data, written, held>>
       ELSE LET persistId == nextId
                cleanupId == IF p THEN nextId + 1 ELSE nextId
            IN  /\ _cache' = <<>>
                /\ persistence' = p
                /\ _store' = IF p THEN _loadFromDisk(<<>>, file, now) ELSE <<>>
                /\ _timer' = IF p THEN persistId ELSE _timer
                /\ written' = NoneWritten
                /\ _data' = NoStats
                /\ held' = Detached(held, _data)
                /\ _interval' = IF ci THEN cleanupId ELSE _interval
                /\ timers' = timers
                     \cup (IF p THEN {[id |-> persistId, kind |-> "persist"]} ELSE {})
                     \cup (IF ci THEN {[id |-> cleanupId, kind |-> "cleanup"]} ELSE {})
                /\ nextId' = nextId + (IF p THEN 1 ELSE 0) + (IF ci THEN 1 ELSE 0)

cache_shutdown ==
  /\ timers' = {tm \in timers : /\ ~(_interval # 0 /\ tm.id = _interval)
                                /\ ~(_timer # 0 /\ tm.id = _timer)}
  /\ _persistToDisk
  /\ _store' = <<>>
  /\ written' = NoneWritten
  /\ _cache' = <<>>

CacheInitialize(en, p, ci) ==
  /\ nextId <= MaxLifeTimers
  /\ cache_initialize(en, p, ci)
  /\ last' = [op |-> "initialize", enabled |-> en, persistence |-> p, cleanup |-> ci]
  /\ UNCHANGED <<now, file, saved, writing, simEnabled, compEnabled, minLength, scan,
                 apiVars, codec>>

CacheShutdown ==
  /\ cache_shutdown
  /\ last' = [op |-> "shutdown"]
  /\ UNCHANGED <<now, persistence, _timer, _interval, nextId, enabled, simEnabled,
                 compEnabled, minLength, _data, writing, held, scan, apiVars, codec>>

NextLife ==
  \/ Tick
  \/ \E en \in BOOLEAN, p \in BOOLEAN, ci \in BOOLEAN : CacheInitialize(en, p, ci)
  \/ CacheShutdown
  \/ PersistTick
  \/ CleanupTick
  \/ CacheSet(Q1, R1, Str(K1))

SpecLife == InitBase /\ [][NextLife]_vars

\* the facade of a cache that initialize may have left disabled: every
\* method of cacheModule, called whatever enabled is
NextInert ==
  \/ Tick
  \/ \E en \in BOOLEAN : CacheInitialize(en, TRUE, TRUE)
  \/ CacheShutdown
  \/ CacheSet(Q1, R1, Str(K1))
  \/ CacheGet(Q1, Str(K1))
  \/ CacheRemove(K1)
  \/ CacheClear
  \/ CacheCleanup

SpecInert == InitBase /\ [][NextInert]_vars

-----------------------------------------------------------------------------
(* The scheduled cleanup: the callback of a cleanup timer that stays       *)
(* scheduled runs again and again.                                         *)

NextClean ==
  \/ Tick
  \/ \E ci \in BOOLEAN : CacheInitialize(TRUE, FALSE, ci)
  \/ CacheShutdown
  \/ CacheSet(Str(<<"h", "i">>), Str(<<"x">>), Str(K1))
  \/ CleanupTick

SpecClean == InitBase /\ [][NextClean]_vars /\ WF_vars(CleanupTick)

-----------------------------------------------------------------------------
(* The codec alone: compress a payload, then decompress what it returned.  *)

Payloads ==
  { Null, Bool(FALSE), Num(0), Num(7), Str(<<>>), R1, R2,
    Obj([response |-> R1]),
    Obj([query |-> Q1, response |-> R2]),
    Obj([compressed |-> Bool(TRUE)]),
    Obj([compressed |-> Bool(FALSE), response |-> R1]),
    Obj([compressed |-> Bool(TRUE), data |-> R1]),
    Obj([compressed |-> Bool(TRUE), encoding |-> Str(gzip),
         data |-> B64(Gzip(Stringify(R1))), originalLength |-> Num(3)]) }

CodecMinLengths == {0, 4, 20, DefaultMinLength}

CodecCompress(x) ==
  /\ codec' = [phase |-> "compressed", x |-> x, c |-> compress(x)]
  /\ UNCHANGED <<now, _store, persistence, _timer, _interval, timers, nextId, file,
                 enabled, simEnabled, compEnabled, minLength, _cache, _data, last,
                 written, saved, writing, held, scan, apiVars>>

CodecDecompress ==
  /\ codec.phase = "compressed"
  /\ codec.c.ok
  /\ codec' = [phase |-> "done", x |-> codec.x, c |-> codec.c,
               out |-> decompress(codec.c.v)]
  /\ UNCHANGED <<now, _store, persistence, _timer, _interval, timers, nextId, file,
                 enabled, simEnabled, compEnabled, minLength, _cache, _data, last,
                 written, saved, writing, held, scan, apiVars>>

InitCodec ==
  /\ now = 0
  /\ _store = <<>>
  /\ persistence = TRUE
  /\ _timer = 0
  /\ _interval = 0
  /\ timers = {}
  /\ nextId = 1
  /\ file = NoFile
  /\ enabled = TRUE
  /\ simEnabled = TRUE
  /\ compEnabled \in BOOLEAN
  /\ minLength \in CodecMinLengths
  /\ _cache = <<>>
  /\ _data = NoStats
  /\ last = [op |-> "load"]
  /\ written = NoneWritten
  /\ saved = <<>>
  /\ writing = <<>>
  /\ held = NoSnapshot
  /\ scan = NoScan
  /\ _invalidatedTokens = {}
  /\ revoked = {}
  /\ _requests = <<>>
  /\ asked = <<>>
  /\ codec = [phase |-> "idle"]

NextCodec ==
  \/ \E x \in Payloads : CodecCompress(x)
  \/ CodecDecompress

SpecCodec == InitCodec /\ [][NextCodec]_vars

-----------------------------------------------------------------------------
(* cacheModule._generateKey called twice, at any two times and with any    *)
(* change of the store in between: last holds the last call and, in prev,  *)
(* the call before it.                                                     *)

KeyQueries ==
  {Str(<<"h", "i">>), Str(<<"H", "i", " ">>), Str(<<"a">>), Str(<<"a", "|", "b">>)}
\* the userId and model of the options
KeyDisambiguators ==
  { <<Undefined, Undefined>>, <<Str(<<"u", "1">>), Undefined>>,
    <<Str(<<"b", "|">>), Undefined>>, <<Undefined, Str(<<"m", "1">>)>> }

GenerateKey(query, userId, model) ==
  LET options == [key |-> Undefined, userId |-> userId, model |-> model]
      call == [query |-> query, userId |-> userId, model |-> model, at |-> now,
               key |-> _generateKey(query, options)]
  IN  /\ last' = [op |-> "_generateKey", call |-> call,
                  prev |-> IF last.op = "_generateKey" THEN <<last.call>> ELSE <<>>]
      /\ UNCHANGED <<now, _store, persistence, _timer, _interval, timers, nextId, file,
                     enabled, simEnabled, compEnabled, minLength, _cache, _data,
                     written, saved, writing, held, scan, apiVars, codec>>

\* time passes between two calls
KeyTick ==
  /\ now < MaxTime
  /\ now' = now + 1
  /\ UNCHANGED <<_store, persistence, _timer, _interval, timers, nextId, file,
                 enabled, simEnabled, compEnabled, minLength, _cache, _data, last,
                 written, saved, writing, held, scan, apiVars, codec>>

\* the store changes between two calls
KeyStore(k) ==
  /\ _store' = store_set(_store, k, DiskValue(k), CacheTtl, now)
  /\ UNCHANGED <<now, persistence, _timer, _interval, timers, nextId, file,
                 enabled, simEnabled, compEnabled, minLength, _cache, _data, last,
                 written, saved, writing, held, scan, apiVars, codec>>

NextKey ==
  \/ \E q \in KeyQueries, o \in KeyDisambiguators : GenerateKey(q, o[1], o[2])
  \/ KeyTick
  \/ KeyStore(K1)

SpecKey == InitBase /\ [][NextKey]_vars

-----------------------------------------------------------------------------
(* statsService called directly: the record methods, initialize, and       *)
(* getStats, whose result the caller keeps.                                *)

statsVars == <<now, _store, persistence, _timer, _interval, timers, nextId, file,
               enabled, simEnabled, compEnabled, minLength, _cache, written, saved,
               writing, scan, apiVars, codec>>

\* the number of record calls stays below the bound
StatsCountable ==
  _data.sets + _data.gets + _data.removed + _data.clears + _data.cleaned
    + Len(_data.errors["store"]) + Len(_data.errors["codec"]) <= MaxOps

StatsRecord(op, d) ==
  /\ StatsCountable
  /\ _data' = d
  /\ last' = [op |-> op]
  /\ UNCHANGED <<held, statsVars>>

StatsGetStats ==
  /\ held' = getStats(_data)
  /\ last' = [op |-> "getStats"]
  /\ UNCHANGED <<_data, statsVars>>

StatsInitialize ==
  /\ _data' = NoStats
  /\ held' = Detached(held, _data)
  /\ last' = [op |-> "initialize"]
  /\ UNCHANGED statsVars

NextStats ==
  \/ StatsRecord("recordSet", recordSet(_data))
  \/ \E hit \in BOOLEAN : StatsRecord("recordGet", recordGet(_data, hit))
  \/ StatsRecord("recordRemove", recordRemove(_data))
  \/ \E count \in 0..1 : StatsRecord("recordCleanup", recordCleanup(_data, count))
  \/ StatsRecord("recordClear", recordClear(_data))
  \/ \E scope \in Scopes : StatsRecord("recordError", recordError(_data, scope, "boom"))
  \/ StatsGetStats
  \/ StatsInitialize

SpecStats == InitBase /\ [][NextStats]_vars

-----------------------------------------------------------------------------
(* similarityService called directly.                                      *)

\* a text with one letter in upper case, one punctuation mark put in, or
\* one space doubled
Variants(s) ==
  {s}
  \cup {[s EXCEPT ![i] = Upper[CHOOSE k \in 1..Len(Lower) : Lower[k] = s[i]]] :
          i \in {j \in 1..Len(s) : s[j] # " "}}
  \cup {SubSeq(s, 1, i) \o <<"!">> \o SubSeq(s, i + 1, Len(s)) : i \in 0..Len(s)}
  \cup {SubSeq(s, 1, i) \o SubSeq(s, i, Len(s)) : i \in {j \in 1..Len(s) : s[j] = " "}}

SimBases == {<<"a", " ", "b">>}
HelloQuery == Str(<<"H", "e", "l", "l", "o", " ", "W", "o", "r", "l", "d", "!">>)
HelloPool ==
  << [key |-> "a", value |-> Str(<<"h", "e", "l", "l", "o", " ", "w", "o", "r", "l", "d">>)],
     [key |-> "b", value |-> Str(<<"g", "o", "o", "d", "b", "y", "e">>)] >>
SimQueries ==
  {Str(v) : v \in UNION {Variants(b) : b \in SimBases}}
  \cup {Str(<<"a", "b">>), Str(<<"a", "x">>), Str(<<"!">>)}
\* a pool is Object.entries(pool): the [key, value] pairs in iteration order
PoolOf(x, y) == << [key |-> "a", value |-> Str(x)], [key |-> "b", value |-> Str(y)] >>
SimPools ==
  { << [key |-> "a", value |-> Str(<<"a", "x">>)] >>,
    PoolOf(<<"a", "x">>, <<"a", " ", "b">>),
    PoolOf(<<"a", " ", " ", "b">>, <<"A", " ", "b">>),
    PoolOf(<<"?">>, <<"a", "b">>) }
Half == [num |-> 1, den |-> 2]
Quarter == [num |-> 1, den |-> 4]
SimCalls ==
  [query : {Str(<<"a", "b">>), Str(<<"a", "x">>), Str(<<"!">>)}, pool : SimPools,
   threshold : {Half}]
  \cup [query : SimQueries, pool : {PoolOf(<<"a", " ", " ", "b">>, <<"A", " ", "b">>)},
        threshold : {Half}]
  \cup [query : {Str(<<"a", "b">>)}, pool : SimPools, threshold : {Quarter}]
  \cup {[query |-> HelloQuery, pool |-> HelloPool, threshold |-> Half]}
\* the normalized texts _calculate is called with
SimNormals == {<<>>, <<"a", "b">>, <<"a", " ", "b">>, <<"a", "x">>}

simVars == <<now, _store, persistence, _timer, _interval, timers, nextId, file,
             enabled, simEnabled, compEnabled, minLength, _data, written, saved,
             writing, held, scan, apiVars, codec>>

SimFindBestMatch(c) ==
  LET r == findBestMatch(c.query, c.pool, c.threshold)
  IN  /\ _cache' = r.memo
      /\ last' = [op |-> "findBestMatch", query |-> c.query, pool |-> c.pool,
                  threshold |-> c.threshold, result |-> r.best, memo |-> _cache]
      /\ UNCHANGED simVars

SimCalculate(a, b) ==
  LET r == _calculate(_cache, a, b)
  IN  /\ _cache' = r.memo
      /\ last' = [op |-> "_calculate", a |-> a, b |-> b, score |-> r.score,
                  memo |-> _cache]
      /\ UNCHANGED simVars

NextSim ==
  \/ \E c \in SimCalls : SimFindBestMatch(c)
  \/ \E a \in SimNormals, b \in SimNormals : SimCalculate(a, b)

SpecSim == InitBase /\ [][NextSim]_vars

-----------------------------------------------------------------------------
(* authMiddleware (api-auth.js): JWTs, logout and the hourly cleanup of    *)
(* the tokens logged out.  The clock counts milliseconds, the exp claim of *)
(* a token counts seconds.                                                 *)

\* the clock units of one second (1000 in the code), and the life of a
\* token in seconds (tokenExpiration)
Second == 2
TokenLife == 1

\* the rest of the state, which the API middlewares leave alone
cacheState == <<_store, persistence, _timer, _interval, file, enabled, simEnabled,
                compEnabled, minLength, _cache, _data, written, saved, writing,
                held, scan, codec>>

\* a request without a token, and a token that is no JWT
NoToken == [kind |-> "none"]
Opaque == [kind |-> "opaque"]

\* jwt.sign(payload, secret, {expiresIn}) at time t: iat is the second of
\* the clock, exp is iat plus the life
sign(userId, t) ==
  [kind |-> "jwt", userId |-> userId, hasExp |-> TRUE,
   exp |-> (t \div Second) + TokenLife, signed |-> TRUE]

\* jwt.decode(token): the payload, unverified, or null
decode(token) == IF token.kind = "jwt" THEN token ELSE Null

\* !decoded || !decoded.exp
LacksExp(decoded) == decoded = Null \/ ~decoded.hasExp \/ decoded.exp = 0

\* jwt.verify(token, secret) at time t: the signature first, then exp
\* against the second of the clock
verify(token, t) ==
  IF token.kind # "jwt" \/ ~token.signed THEN "JsonWebTokenError"
  ELSE IF token.hasExp /\ (t \div Second) >= token.exp THEN "TokenExpiredError"
  ELSE "ok"

\* authenticate(req, res, next) for the token _extractToken finds: "next",
\* or the message of the 401 response
authenticate(inv, token, t) ==
  IF token = NoToken THEN "missing"
  ELSE IF token \in inv THEN "invalidated"
  ELSE LET v == verify(token, t)
       IN  IF v = "ok" THEN "next"
           ELSE IF v = "TokenExpiredError" THEN "expired"
           ELSE "invalid"

\* invalidateToken(token) at time t: the new set, what it returns, and
\* whether it added the token
invalidateToken(inv, token, t) ==
  LET decoded == decode(token)
  IN  IF token = NoToken THEN [set |-> inv, result |-> FALSE, added |-> FALSE]
      ELSE IF LacksExp(decoded) THEN [set |-> inv, result |-> FALSE, added |-> FALSE]
      ELSE IF decoded.exp * Second <= t THEN [set |-> inv, result |-> TRUE, added |-> FALSE]
      ELSE [set |-> inv \cup {token}, result |-> TRUE, added |-> TRUE]

\* a faulty variant: exp is compared with the clock as it is, in seconds
_cleanupInvalidatedTokens_seconds(inv, t) ==
  {token \in inv : ~(~LacksExp(decode(token)) /\ decode(token).exp <= t)}

\* _cleanupInvalidatedTokens() at time t
_cleanupInvalidatedTokens(inv, t) ==
  {token \in inv : ~(~LacksExp(decode(token)) /\ decode(token).exp * Second <= t)}

\* the tokens the requests carry: those generateTokens issued at some time,
\* one of them with its signature broken, one signed without exp, a text
\* that is no JWT, and none
AuthTokens ==
  {sign("u1", t) : t \in 0..MaxTime}
    \cup {[sign("u1", 0) EXCEPT !.signed = FALSE],
          [sign("u1", 0) EXCEPT !.hasExp = FALSE, !.exp = 0],
          Opaque, NoToken}

\* initialize(config): the interval of the cleanup is set
AuthInitialize ==
  /\ nextId <= MaxTimers
  /\ timers' = timers \cup {[id |-> nextId, kind |-> "tokens"]}
  /\ nextId' = nextId + 1
  /\ last' = [op |-> "authInitialize"]
  /\ UNCHANGED <<now, apiVars, cacheState>>

Authenticate(token) ==
  /\ last' = [op |-> "authenticate", token |-> token,
              result |-> authenticate(_invalidatedTokens, token, now)]
  /\ UNCHANGED <<now, timers, nextId, apiVars, cacheState>>

InvalidateToken(token) ==
  LET r == invalidateToken(_invalidatedTokens, token, now)
  IN  /\ _invalidatedTokens' = r.set
      /\ revoked' = IF r.result THEN revoked \cup {[token |-> token, added |-> r.added]}
                    ELSE revoked
      /\ last' = [op |-> "invalidateToken", token |-> token, result |-> r.result]
      /\ UNCHANGED <<now, timers, nextId, _requests, asked, cacheState>>

\* the interval set by initialize fires
TokensCleanupTick ==
  /\ \E tm \in timers : tm.kind = "tokens"
  /\ _invalidatedTokens' = _cleanupInvalidatedTokens(_invalidatedTokens, now)
  /\ last' = [op |-> "tokensCleanup"]
  /\ UNCHANGED <<now, timers, nextId, revoked, _requests, asked, cacheState>>

NextAuth ==
  \/ Tick
  \/ AuthInitialize
  \/ \E token \in AuthTokens : Authenticate(token)
  \/ \E token \in AuthTokens : InvalidateToken(token)
  \/ TokensCleanupTick

SpecAuth == InitBase /\ [][NextAuth]_vars

-----------------------------------------------------------------------------
(* rateLimiter (api-rate-limiter.js): the middleware and its Map of        *)
(* timestamps per ip:path.                                                 *)

\* the limit and the window every request has (defaultLimit, defaultWindow),
\* and the number of requests made
RateLimit == 2
RateWindow == 2
MaxRequests == 4

Loopback == <<"1", "2", "7">>
ipWhitelist == {Loopback}
ClientIps == {<<"1", "0">>, Loopback}
Paths == {<<"/", "a">>, <<"/", "b">>}

\* `${ip}:${req.path}`
RequestKey(ip, path) == ip \o <<":">> \o path

\* this._requests.get(key), after the empty array was set for a new key
Timestamps(requests, key) == IF key \in DOMAIN requests THEN requests[key] ELSE <<>>

\* Map.prototype.set on the Map as a function of its keys
RequestsSet(requests, key, timestamps) ==
  [k \in DOMAIN requests \cup {key} |-> IF k = key THEN timestamps ELSE requests[k]]

\* a faulty variant: the timestamp of a request that is refused is not kept
middleware_passed(requests, ip, path, t) ==
  LET key == RequestKey(ip, path)
      kept == SelectSeq(Timestamps(requests, key), LAMBDA ts : t - ts < RateWindow)
  IN  IF ip \in ipWhitelist THEN [requests |-> requests, result |-> "next"]
      ELSE IF Len(kept) + 1 > RateLimit
        THEN [requests |-> RequestsSet(requests, key, kept), result |-> "429"]
        ELSE [requests |-> RequestsSet(requests, key, Append(kept, t)), result |-> "next"]

\* the function middleware() returns, called at time t: the new Map, and
\* next() or next(new ApiError(..., 429))
middleware(requests, ip, path, t) ==
  LET key == RequestKey(ip, path)
      timestamps ==
        Append(SelectSeq(Timestamps(requests, key), LAMBDA ts : t - ts < RateWindow), t)
  IN  IF ip \in ipWhitelist THEN [requests |-> requests, result |-> "next"]
      ELSE [requests |-> RequestsSet(requests, key, timestamps),
            result |-> IF Len(timestamps) > RateLimit THEN "429" ELSE "next"]

Request(ip, path) ==
  LET r == middleware(_requests, ip, path, now)
  IN  /\ Len(asked) < MaxRequests
      /\ _requests' = r.requests
      /\ asked' = Append(asked, [ip |-> ip, path |-> path, at |-> now, result |-> r.result])
      /\ last' = [op |-> "request", ip |-> ip, path |-> path, result |-> r.result]
      /\ UNCHANGED <<now, timers, nextId, _invalidatedTokens, revoked, cacheState>>

NextRate ==
  \/ Tick
  \/ \E ip \in ClientIps, path \in Paths : Request(ip, path)

SpecRate == InitBase /\ [][NextRate]_vars

-----------------------------------------------------------------------------
(* The properties.                                                         *)

\* the payload an entry holds, decompressed when it carries the tag
PayloadOf(e) == decompress(e.value).v
\* the score the stored query of e has against the query q
ScoreOf(q, e) ==
  _calculate(<<>>, _normalize(q), _normalize(Prop(PayloadOf(e), "query"))).score
\* the entries of m that have not expired at t and score above the threshold
Matches(m, q, t) ==
  {i \in 1..Len(m) : ~(m[i].expiresAt < t) /\ GT(ScoreOf(q, m[i]), Threshold)}
BestMatches(m, q, t) ==
  {i \in Matches(m, q, t) : \A j \in Matches(m, q, t) : ~GT(ScoreOf(q, m[j]), ScoreOf(q, m[i]))}
OneHit == [gets |-> 1, hits |-> 1, misses |-> 0]
OneMiss == [gets |-> 1, hits |-> 0, misses |-> 1]

\* C1: a facade get by explicit key, made before the TTL of the last set
\* under that key elapses and with no remove, clear or overwrite in between,
\* returns the response that was set and is recorded as a hit.
C1_ExactGetReturnsResponse ==
  (/\ last.op = "get"
   /\ Truthy(last.key)
   /\ written[last.key.s].set
   /\ written[last.key.s].query = last.query
   /\ now < written[last.key.s].t0 + written[last.key.s].ttl)
  => /\ last.result = Ok(written[last.key.s].value)
     /\ last.recorded = OneHit

\* C2: store get returns an entry only while now < expiresAt; otherwise it
\* returns null and the key is gone from the map.
C2_GetOnlyBeforeExpiry ==
  last.op = "get" =>
    /\ last.result # Null => now < last.result.expiresAt
    /\ last.result = Null => ~MapHas(_store, last.key)

\* C3: an entry written by set(key, value, T) at t0 and neither overwritten
\* nor removed is returned by get at every time before t0 + T, and get
\* returns null at every time after t0 + T.
C3_TtlWindow ==
  (last.op = "get" /\ written[last.key].set) =>
    LET w == written[last.key]
    IN  /\ now < w.t0 + w.ttl =>
              /\ last.result # Null
              /\ last.result.value = w.value
        /\ now > w.t0 + w.ttl => last.result = Null

C3_Witness ==
  /\ last.op = "get"
  /\ written[last.key].set
  /\ written[last.key].t0 < now
  /\ now < written[last.key].t0 + written[last.key].ttl
  /\ last.result # Null

\* C4: with similarity enabled and no key given, when the store holds a
\* live entry whose stored query scores above the threshold, the facade get
\* returns the response of a best-scoring such entry and records one hit.
C4_SimilarGetReturnsBest ==
  [][(/\ last'.op = "get"
      /\ ~Truthy(last'.key)
      /\ enabled /\ simEnabled
      /\ Matches(_store, last'.query, now) # {})
     => /\ \E i \in BestMatches(_store, last'.query, now) :
             last'.result = Ok(Prop(PayloadOf(_store[i]), "response"))
        /\ last'.recorded = OneHit]_vars

\* C5: a facade get for which neither a live entry under the given key nor
\* a similarity match exists returns null, does not throw, and adds one to
\* gets and to misses and nothing to hits.
C5_MissReturnsNull ==
  [][(/\ last'.op = "get"
      /\ enabled
      /\ IF Truthy(last'.key)
           THEN \A i \in 1..Len(_store) :
                  _store[i].key = last'.key.s => _store[i].expiresAt < now
           ELSE Matches(_store, last'.query, now) = {})
     => /\ last'.result = Ok(Null)
        /\ last'.recorded = OneMiss]_vars

\* C6: decompress(compress(x)) is x, for every JSON-serializable payload x.
C6_RoundTrip ==
  codec.phase = "done" => codec.out = Ok(codec.x)

\* C7: each key maps to at most one entry: getKeys lists no key twice, and
\* after a second set of a key get returns the value, createdAt and
\* expiresAt of the second set.
C7_OneEntryPerKey ==
  /\ \A i, j \in 1..Len(_store) : i # j => _store[i].key # _store[j].key
  /\ last.op = "getKeys" =>
       /\ last.result = [i \in 1..Len(_store) |-> _store[i].key]
       /\ \A i, j \in 1..Len(last.result) : i # j => last.result[i] # last.result[j]
  /\ (last.op = "get" /\ written[last.key].set /\ last.result # Null) =>
       LET w == written[last.key]
       IN  last.result = Entry(last.key, w.value, w.t0, w.t0 + w.ttl)

\* the key set first was set again after the other key was set, and is read
C7_Witness ==
  /\ last.op = "get"
  /\ last.result # Null
  /\ Len(_store) = 2
  /\ _store[1].key = last.key
  /\ _store[1].createdAt > _store[2].createdAt

\* C8: cleanup deletes exactly the entries whose expiresAt is before now,
\* returns how many it deleted, and leaves every other entry as it was and
\* in place.
C8_CleanupExact ==
  [][last'.op = "cleanup" =>
       LET expired == {i \in 1..Len(_store) : _store[i].expiresAt < now}
       IN  /\ _store' = SelectSeq(_store, LAMBDA e : ~(e.expiresAt < now))
           /\ last'.result = Cardinality(expired)
           /\ Len(store_getKeys(_store')) = Len(_store) - Cardinality(expired)]_vars

C8_Witness ==
  /\ last.op = "cleanup"
  /\ last.result = 1
  /\ Len(_store) = 1
  /\ _store[1].expiresAt = now

\* C9: once shutdown has returned, no persistence timer and no cleanup
\* timer remains scheduled.
C9_NoTimerAfterShutdown ==
  last.op = "shutdown" => timers = {}

\* C10: initializing from the snapshot file restores, for every key of the
\* persisted map whose expiresAt is after the load time, an entry with the
\* value, createdAt and expiresAt it had when the file was written.
C10_SnapshotRoundTrip ==
  (last.op = "initialize" /\ last.loaded /\ file.exists) =>
    \A i \in 1..Len(saved) :
      saved[i].expiresAt > now => MapGet(_store, saved[i].key) = saved[i]

C10_Witness ==
  /\ last.op = "initialize"
  /\ last.loaded
  /\ file.exists
  /\ Len(saved) = 2
  /\ \E i \in 1..2 : saved[i].expiresAt > now /\ saved[i].createdAt > 0
  /\ \E i \in 1..2 : ~(saved[i].expiresAt > now)

\* C11: right after initialize has loaded the snapshot file, no entry of the
\* map has an expiresAt that is not after the load time, and every entry of
\* the file whose expiresAt is after the load time is in the map as the file
\* has it.
C11_LoadKeepsLiveOnly ==
  (last.op = "initialize" /\ last.loaded /\ WellFormed(file)) =>
    LET entries == Parse(file.text)
    IN  /\ \A i \in 1..Len(_store) : _store[i].expiresAt > now
        /\ \A i \in 1..Len(_store) : \E j \in 1..Len(entries) : entries[j] = _store[i]
        /\ \A j \in 1..Len(entries) :
             entries[j].expiresAt > now => MapGet(_store, entries[j].key) = entries[j]

C11_Witness ==
  /\ last.op = "initialize"
  /\ last.loaded
  /\ WellFormed(file)
  /\ Len(Parse(file.text)) = 2
  /\ Len(_store) = 1
  /\ \E j \in 1..2 : Parse(file.text)[j].expiresAt = now

\* C12: initialize with persistence on does not raise, whatever the
\* snapshot file is, and when the file is missing or is not a well-formed
\* snapshot the map is empty when initialize returns.
C12_DamagedFileLoadsEmpty ==
  (last.op = "initialize" /\ last.loaded) =>
    /\ ~last.raised
    /\ ~WellFormed(file) => _store = <<>>

\* C13: a snapshot write that fails is contained: the failure reaches
\* nobody as a rejection, neither unhandled out of the timer callback nor
\* out of shutdown, it leaves the map as it was, and the persistence timer
\* that started it stays scheduled for the next attempt.
C13_WriteFailureContained ==
  [][(last'.op = "settled" /\ ~last'.ok) =>
       /\ ~last'.unhandled
       /\ ~last'.raised
       /\ _store' = _store
       /\ timers' = timers]_vars

\* C14: when a snapshot write has completed, the file holds exactly the
\* entries the map had at the instant the write took its copy.
C14_FileIsOneSnapshot ==
  (last.op = "settled" /\ last.ok) => file = FileOf(snapshot(last.copy))

\* the score candidate i of the pool of the last findBestMatch has against
\* its query, computed without a memo
ScoreAt(i) ==
  _calculate(<<>>, _normalize(last.query), _normalize(last.pool[i].value)).score
\* the candidates no other candidate scores above
Tops == {i \in 1..Len(last.pool) : \A j \in 1..Len(last.pool) : ~GT(ScoreAt(j), ScoreAt(i))}
\* the Levenshtein distance by its definition on the tails of the strings
RECURSIVE lev(_, _)
lev(a, b) ==
  IF b = <<>> THEN Len(a)
  ELSE IF a = <<>> THEN Len(b)
  ELSE IF Head(a) = Head(b) THEN lev(Tail(a), Tail(b))
  ELSE 1 + Min3(lev(Tail(a), b), lev(a, Tail(b)), lev(Tail(a), Tail(b)))

\* C15: findBestMatch returns null exactly when no candidate scores strictly
\* above the threshold; a candidate scoring the threshold itself is no match.
C15_StrictThreshold ==
  (last.op = "findBestMatch" /\ Truthy(last.query)) =>
    (last.result = Null <=> \A i \in 1..Len(last.pool) : ~GT(ScoreAt(i), last.threshold))

C15_Witness ==
  /\ last.op = "findBestMatch"
  /\ Truthy(last.query)
  /\ last.result = Null
  /\ \E i \in 1..Len(last.pool) :
       ScoreAt(i).num * last.threshold.den = last.threshold.num * ScoreAt(i).den

\* C16: when a candidate scores above the threshold, findBestMatch returns
\* the first candidate, in the order of the pool, that has the highest score
\* of the pool.
C16_FirstOfTheBest ==
  (/\ last.op = "findBestMatch"
   /\ Truthy(last.query)
   /\ \E i \in 1..Len(last.pool) : GT(ScoreAt(i), last.threshold)) =>
    LET first == CHOOSE i \in Tops : \A j \in Tops : i <= j
    IN  /\ last.result # Null
        /\ last.result.key = last.pool[first].key
        /\ last.result.query = last.pool[first].value
        /\ last.result.score.num * ScoreAt(first).den
             = ScoreAt(first).num * last.result.score.den

C16_Witness ==
  /\ last.op = "findBestMatch"
  /\ last.result # Null
  /\ Tops = {1, 2}
  /\ last.result.key = "a"
  /\ GT(One, last.result.score)

\* C17: for two non-empty normalized strings the score is
\* 1 - d / max(len(a), len(b)) with d the Levenshtein distance, it lies in
\* [0, 1], and it is 1 when the strings are equal.
C17_ScoreIsEditSimilarity ==
  (last.op = "_calculate" /\ last.a # <<>> /\ last.b # <<>>) =>
    LET longest == Max2(Len(last.a), Len(last.b))
    IN  /\ last.score.den > 0
        /\ last.score.num * longest = (longest - lev(last.a, last.b)) * last.score.den
        /\ 0 <= last.score.num
        /\ last.score.num <= last.score.den
        /\ last.a = last.b => last.score.num = last.score.den

C17_Witness ==
  /\ last.op = "_calculate"
  /\ last.a # <<>>
  /\ last.b # <<>>
  /\ Len(last.a) # Len(last.b)
  /\ lev(last.a, last.b) = 2

\* C18: when either string is empty after normalization, both being empty
\* included, the score is 0, and a query or candidate that normalizes to
\* the empty string is never matched.
C18_EmptyScoresZero ==
  /\ (last.op = "_calculate" /\ (last.a = <<>> \/ last.b = <<>>)) => last.score = Zero
  /\ (last.op = "findBestMatch" /\ last.result # Null) =>
       /\ _normalize(last.query) # <<>>
       /\ _normalize(last.result.query) # <<>>

\* C19: a query and a candidate that differ only in the case of letters, in
\* punctuation or in the length of a run of spaces score 1 against each
\* other: such a candidate makes findBestMatch return a match of score 1, as
\* "Hello World!" does with {a: "hello world", b: "goodbye"} and 0.5.
C19_SameUpToCasePunctuationSpaces ==
  last.op = "findBestMatch" =>
    /\ (\E i \in 1..Len(last.pool), b \in SimBases :
           /\ last.query.s \in Variants(b)
           /\ last.pool[i].value.s \in Variants(b)) =>
         /\ last.result # Null
         /\ last.result.score = One
    /\ (last.query = HelloQuery /\ last.pool = HelloPool) =>
         last.result = [key |-> "a", query |-> HelloPool[1].value, score |-> One]

C19_Witness ==
  /\ last.op = "findBestMatch"
  /\ last.query.s \in Variants(<<"a", " ", "b">>) \ {<<"a", " ", "b">>}
  /\ last.pool[1].value.s \in Variants(<<"a", " ", "b">>) \ {<<"a", " ", "b">>}
  /\ last.query # last.pool[1].value
  /\ last.result # Null
  /\ last.result.key = "a"

\* C20: the memo never holds more entries than cacheSize.
C20_MemoWithinCapacity ==
  Len(_cache) <= cacheSize

\* C21: the memo is first in, first out: a call leaves in the memo the
\* entries it found there without the k oldest, in their order, followed by
\* the entries it inserted, and k is at most the number inserted; one score
\* computation inserts at most one entry, and a hit changes nothing.
C21_FifoEviction ==
  last.op \in {"_calculate", "findBestMatch"} =>
    /\ \E k \in 0..Len(last.memo) :
         LET n == Len(_cache) - (Len(last.memo) - k)
         IN  /\ k <= n
             /\ SubSeq(_cache, 1, Len(last.memo) - k) = SubSeq(last.memo, k + 1, Len(last.memo))
             /\ \A i \in 1..Len(_cache), j \in 1..Len(_cache) :
                  _cache[i].key = _cache[j].key => i = j
    /\ last.op = "_calculate" =>
         /\ Len(_cache) <= Len(last.memo) + 1
         /\ (\E i \in 1..Len(last.memo) : last.memo[i].key = cacheKey(last.a, last.b))
              => _cache = last.memo
         /\ _cache # last.memo =>
              /\ _cache[Len(_cache)].key = cacheKey(last.a, last.b)
              /\ \/ _cache = Append(last.memo, _cache[Len(_cache)])
                 \/ _cache = Append(Tail(last.memo), _cache[Len(_cache)])

C21_Witness ==
  /\ last.op = "_calculate"
  /\ Len(last.memo) > cacheSize
  /\ _cache = Append(Tail(last.memo), _cache[Len(_cache)])
  /\ \A i \in 1..Len(last.memo) : last.memo[i].key # cacheKey(last.a, last.b)

KeyQuery(call) == trim(toLowerCase(call.query.s))
SameKeyInputs(c, e) ==
  /\ KeyQuery(c) = KeyQuery(e)
  /\ OrEmpty(c.userId) = OrEmpty(e.userId)
  /\ OrEmpty(c.model) = OrEmpty(e.model)

\* C23: two calls of _generateKey with the same normalized query, the same
\* userId and the same model return the same key, whatever the time and
\* the state of the store at each call.
C23_KeyIsDeterministic ==
  (last.op = "_generateKey" /\ last.prev # <<>> /\ SameKeyInputs(last.call, last.prev[1]))
    => last.call.key = last.prev[1].key

C23_Witness ==
  /\ last.op = "_generateKey"
  /\ last.prev # <<>>
  /\ SameKeyInputs(last.call, last.prev[1])
  /\ last.call.query # last.prev[1].query
  /\ last.call.userId # Undefined
  /\ last.call.at > last.prev[1].at
  /\ _store # <<>>

\* C24: two calls of _generateKey that differ in the normalized query, in
\* the userId or in the model return different keys, the hash being taken
\* as collision-free.
C24_KeysAreDistinct ==
  (last.op = "_generateKey" /\ last.prev # <<>> /\ ~SameKeyInputs(last.call, last.prev[1]))
    => last.call.key # last.prev[1].key

\* C25: on an enabled cache every set call adds one to sets, every get call
\* adds one to gets and one to hits when it returned a cached response, one
\* to misses otherwise; so sets, gets, hits and misses are the numbers of
\* such calls, and gets = hits + misses.
C25_StatsCountCalls ==
  [][/\ (enabled /\ last'.op = "set") => _data'.sets = _data.sets + 1
     /\ (enabled /\ last'.op = "get") =>
          LET hit == last'.result.ok /\ ~Nullish(last'.result.v)
          IN  /\ _data'.gets = _data.gets + 1
              /\ _data'.hits = _data.hits + (IF hit THEN 1 ELSE 0)
              /\ _data'.misses = _data.misses + (IF hit THEN 0 ELSE 1)
     /\ _data'.gets = _data'.hits + _data'.misses]_vars

\* C26: what a holder of an object returned by getStats reads in it, its
\* counters and its errors, is not changed by any later record call.
C26_StatsSnapshotIsFrozen ==
  [][(held.taken /\ last'.op # "getStats") => Seen(held, _data)' = Seen(held, _data)]_vars

\* C27: set and get called without a key and with a query that is null or
\* the empty string return false, respectively null, throw nothing, and
\* leave in the map only entries that were there, as they were.
C27_EmptyQueryIsRefused ==
  [][(/\ last'.op \in {"set", "get"}
      /\ ~Truthy(last'.key)
      /\ last'.query \in {Null, Str(<<>>)})
     => /\ last'.result = IF last'.op = "set" THEN Ok(Bool(FALSE)) ELSE Ok(Null)
        /\ \A i \in 1..Len(_store') : \E j \in 1..Len(_store) : _store[j] = _store'[i]]_vars

\* C28: a get by key that reads a live entry carrying the compressed tag
\* over data that cannot be decompressed throws, and leaves the map as it
\* was.
C28_MalformedEntrySurfaces ==
  [][(/\ last'.op = "get"
      /\ Truthy(last'.key)
      /\ store_get(_store, last'.key.s, now).item # Null
      /\ LET value == store_get(_store, last'.key.s, now).item.value
         IN  Truthy(Prop(value, "compressed")) /\ ~decompress(value).ok)
     => /\ ~last'.result.ok
        /\ _store' = _store]_vars

\* C29: with compression enabled, compress returns its argument itself when
\* the serialized length is below minLength, and for every length from
\* minLength on a wrapper with compressed = true, encoding "gzip" and
\* originalLength the serialized length.
C29_CompressAtMinLength ==
  (codec.phase # "idle" /\ compEnabled) =>
    LET length == Stringify(codec.x).len
    IN  IF length < minLength
          THEN codec.c = Ok(codec.x)
          ELSE /\ codec.c.ok
               /\ codec.c.v.t = "object"
               /\ DOMAIN codec.c.v.o = {"compressed", "encoding", "data", "originalLength"}
               /\ Prop(codec.c.v, "compressed") = Bool(TRUE)
               /\ Prop(codec.c.v, "encoding") = Str(gzip)
               /\ Prop(codec.c.v, "originalLength") = Num(length)

C29_Witness ==
  /\ codec.phase = "compressed"
  /\ compEnabled
  /\ minLength > 0
  /\ Stringify(codec.x).len = minLength
  /\ codec.c.ok
  /\ Prop(codec.c.v, "compressed") = Bool(TRUE)
  /\ Prop(codec.c.v, "originalLength") = Num(minLength)

\* the cache is enabled and a cleanup timer is scheduled
CleanupScheduled == enabled /\ \E tm \in timers : tm.kind = "cleanup"
\* the map holds an entry under key k whose expiresAt has passed
ExpiredIn(k) == \E i \in 1..Len(_store) : _store[i].key = k /\ _store[i].expiresAt < now

\* C30: while the cache is enabled and its cleanup timer is scheduled, an
\* entry whose expiresAt has passed is eventually gone from the map, and
\* every run of the timer's callback deletes the entries expired by then
\* and adds their number to cleaned.
C30_ExpiredEventuallyCleaned ==
  /\ \A k \in FacadeKeys :
       (CleanupScheduled /\ ExpiredIn(k)) ~> (~CleanupScheduled \/ ~ExpiredIn(k))
  /\ [][last'.op = "cleanupTick" =>
          /\ _store' = SelectSeq(_store, LAMBDA e : ~(e.expiresAt < now))
          /\ _data'.cleaned = _data.cleaned + (Len(_store) - Len(_store'))]_vars

C30_Witness ==
  /\ last.op = "cleanupTick"
  /\ last.result = Ok(Num(1))
  /\ _data.cleaned = 1
  /\ _data.sets = 1
  /\ _store = <<>>
  /\ CleanupScheduled

\* C31: a cleanup sweep that runs among set, get and remove calls and the
\* steps of the persistence task deletes no entry whose expiresAt is not
\* before the time of the deletion (an entry just overwritten with a fresh
\* ttl stays), and the count it returns is the number of entries it deleted.
C31_SweepDeletesOnlyExpired ==
  [][last'.op = "cleanup" =>
       /\ \A i \in 1..Len(_store) :
            ~MapHas(_store', _store[i].key) => _store[i].expiresAt < now
       /\ \A j \in 1..Len(_store') : MapGet(_store, _store'[j].key) = _store'[j]
       /\ last'.result = Len(_store) - Len(_store')]_vars

\* a sweep that deleted one entry and left one that was written again, at
\* the time of the sweep, under a key whose earlier entry had been written
\* to the snapshot file, while a write of the persistence task is pending
C31_Witness ==
  /\ last.op = "cleanup"
  /\ last.result = 1
  /\ Len(_store) = 1
  /\ _store[1].createdAt = now
  /\ now < _store[1].expiresAt
  /\ writing # <<>>
  /\ \E i \in 1..Len(writing[1].copy) :
       /\ writing[1].copy[i].key = _store[1].key
       /\ writing[1].copy[i].expiresAt < now

\* the map holds under key k an entry whose expiresAt has passed at time t
Expired(m, k, t) == MapHas(m, k) /\ MapGet(m, k).expiresAt < t

\* C32: an entry whose expiresAt has passed is absent for getKeys and for
\* remove as it is for get: getKeys does not list its key, and remove of its
\* key returns false, whether or not a get or a cleanup has purged it.
C32_ExpiredIsAbsentEverywhere ==
  [][/\ last'.op = "getKeys" =>
          \A i \in 1..Len(last'.result) : ~Expired(_store, last'.result[i], now)
     /\ (last'.op = "remove" /\ Expired(_store, last'.key, now)) =>
          last'.result = FALSE]_vars

\* C33: a facade get without options.key runs its similarity scan to the
\* end and returns a cached response or null, without raising an error,
\* also when entries expire or are removed, cleared or cleaned up between
\* the asynchronous steps of the scan.
C33_ScanAlwaysCompletes ==
  (last.op = "get" /\ last.key = Undefined) => last.result.ok

\* compress applied to payload x gives a compressed wrapper
Wraps(x) == compress(x).ok /\ Truthy(Prop(compress(x).v, "compressed"))

\* C34: the size test of the facade and the size test of the codec agree
\* for every serialized length, the length minLength included: set stores
\* the payload in compressed form exactly when compress applied to that
\* payload gives a compressed wrapper.
C34_PreCheckAgreesWithCodec ==
  (last.op = "set" /\ last.result = Ok(Bool(TRUE))) =>
    LET payload == PayloadAt(last.query, last.response, last.key, now)
        stored == MapGet(_store, KeyOf(last.query, last.key)).value
    IN  Truthy(Prop(stored, "compressed")) <=> Wraps(payload)

\* the last step was the return of shutdown after its write
ShutdownReturned == last.op = "settled" /\ last.by = "shutdown" /\ last.ok

\* C35: when shutdown returns, the snapshot file holds exactly the entries
\* the map had when shutdown took its copy, also when a write started by the
\* persistence timer was pending as shutdown began; and no such write
\* changes the file after shutdown has returned.
C35_ShutdownWriteIsLast ==
  [][/\ ShutdownReturned' => file' = FileOf(snapshot(last'.copy))
     /\ (ShutdownReturned /\ last'.op = "settled" /\ last'.by = "timer") =>
          file' = file]_vars

\* the calls a client makes on cacheModule after initialize
FacadeCalls == {"set", "get", "remove", "clear", "cleanup", "shutdown"}

\* C36: a cache initialized with enabled = false is inert: initialize
\* starts no timer, set returns false, get returns null, and no call on the
\* facade, shutdown included, changes the map of the store, the counters of
\* the stats or the snapshot file.
C36_DisabledIsInert ==
  [][/\ (last'.op = "initialize" /\ ~enabled') => timers' = timers
     /\ (~enabled /\ last'.op \in FacadeCalls) =>
          /\ last'.op = "set" => last'.result = Ok(Bool(FALSE))
          /\ last'.op = "get" => last'.result = Ok(Null)
          /\ timers' \subseteq timers
          /\ _store' = _store
          /\ _data' = _data
          /\ file' = file]_vars

\* C37: once invalidateToken has returned true for a JWT, no later
\* authenticate carrying that token reaches next(), however often the
\* cleanup of the invalidated tokens has run in between.
C37_LoggedOutStaysOut ==
  (last.op = "authenticate" /\ \E r \in revoked : r.token = last.token) =>
    last.result # "next"

\* a token that was added to the set, that a later cleanup took out of it,
\* and that authenticate then refuses as expired
C37_Witness ==
  /\ last.op = "authenticate"
  /\ [token |-> last.token, added |-> TRUE] \in revoked
  /\ last.token \notin _invalidatedTokens
  /\ last.result = "expired"
  /\ _invalidatedTokens # {}

\* the requests before the i-th with its ip and path, made less than a
\* window before it
Recent(i) ==
  {j \in 1..(i - 1) : /\ asked[j].ip = asked[i].ip
                       /\ asked[j].path = asked[i].path
                       /\ asked[i].at - asked[j].at < RateWindow}

\* C38: for a client that is not whitelisted, with one limit and one
\* window, the rate limiter passes no more than limit requests of one ip
\* and path within a span shorter than the window; a request is answered
\* with 429 exactly when limit requests or more of that ip and path came
\* less than a window before it, the refused ones counted.
C38_AtMostLimitPerWindow ==
  \A i \in 1..Len(asked) :
    asked[i].ip \notin ipWhitelist =>
      /\ asked[i].result = "429" <=> Cardinality(Recent(i)) >= RateLimit
      /\ asked[i].result = "next" =>
           Cardinality({j \in Recent(i) : asked[j].result = "next"}) < RateLimit

\* a request refused although fewer than limit requests were passed in the
\* window before it: a refused one is among those counted
C38_Witness ==
  /\ Len(asked) = MaxRequests
  /\ asked[MaxRequests].ip \notin ipWhitelist
  /\ asked[MaxRequests].result = "429"
  /\ 1 \notin Recent(MaxRequests)
  /\ asked[1].ip = asked[MaxRequests].ip
  /\ asked[1].path = asked[MaxRequests].path
  /\ Cardinality({j \in Recent(MaxRequests) : asked[j].result = "next"}) < RateLimit

====
